---- MODULE Spec2Model ----
(***************************************************************************)
(* Model of the mermaid-rs parsing engine: the pie-chart parser            *)
(* (src/diagrams/pie) and the flowchart parser (src/diagrams/flowchart).   *)
(*                                                                         *)
(* Text is a sequence of characters, a character is a one-character        *)
(* string.  A cursor is the number of characters already consumed.         *)
(***************************************************************************)
EXTENDS Integers, Sequences, FiniteSets, TLC

\* K applied to the value of x: x is evaluated once, before K uses it
Bind(K(_), x) == CHOOSE y \in {K(r) : r \in {x}} : TRUE

VARIABLES
    p_gen,      \* pie: the parts the caller's text was written from
    p_src,      \* pie: the text handed to Pie::parse
    p_pc,       \* pie: "start" | "body" | "parsed" | "returned"
    p_pos,      \* pie: cursor of parse_pie in the trimmed text
    p_title,    \* pie: header title, [some, val]
    p_show,     \* pie: header show_data
    p_data,     \* pie: data parsed so far
    p_res,      \* pie: result of parse_pie: "none" | "ok" | "err"
    p_err,      \* pie: the Error of parse_pie
    p_failat,   \* pie: cursor, in the text given to parse_pie, where the failing parser was applied
    p_out,      \* pie: what Pie::parse gives its caller, [status, chart]
    p_first,    \* pie: what an earlier call of Pie::parse on the same text gave
    f_gen,      \* flowchart: the parts the caller's text was written from
    f_src,      \* flowchart: the text handed to Flowchart::parse
    f_pc,       \* flowchart: "start" | "lines" | "inline" | "done"
    f_lines,    \* flowchart: the lines of the text not yet parsed
    f_rest,     \* flowchart: i_outer of parse_line, the rest of the current line
    f_left,     \* flowchart: ParseCtx::left_node_scratch
    f_right,    \* flowchart: ParseCtx::right_node_scratch
    f_dir,      \* flowchart: Flowchart::direction
    f_nodes,    \* flowchart: Flowchart::nodes, id -> Node
    f_edges,    \* flowchart: Flowchart::graph, <<from, to>> -> Connector
    f_out,      \* flowchart: what Flowchart::parse gives its caller, [status, why]
    f_first     \* flowchart: what an earlier call of Flowchart::parse on the same text gave

pvars == <<p_gen, p_src, p_pc, p_pos, p_title, p_show, p_data, p_res, p_err, p_failat, p_out,
          p_first>>
fvars == <<f_gen, f_src, f_pc, f_lines, f_rest, f_left, f_right, f_dir, f_nodes, f_edges, f_out,
          f_first>>
vars == <<pvars, fvars>>

----------------------------------------------------------------------------
(* Text helpers *)

QUOTE == "\""
NL == "\n"

Take(s, n) == SubSeq(s, 1, n)
Drop(s, n) == SubSeq(s, n + 1, Len(s))

\* s[pos+1 ..] starts with lit
StartsWithAt(s, pos, lit) ==
    /\ pos + Len(lit) <= Len(s)
    /\ SubSeq(s, pos + 1, pos + Len(lit)) = lit

\* the character at cursor pos, or "" at the end of the text
CharAt(s, pos) == IF pos < Len(s) THEN s[pos + 1] ELSE ""

\* number of characters of class C at cursor pos
RunAt(s, pos, C) ==
    CHOOSE n \in 0..(Len(s) - pos) :
        /\ \A i \in 1..n : s[pos + i] \in C
        /\ (pos + n = Len(s) \/ s[pos + n + 1] \notin C)

RECURSIVE Concat(_)
Concat(ss) == IF ss = <<>> THEN <<>> ELSE Head(ss) \o Concat(Tail(ss))

\* str::trim: Unicode White_Space (the ASCII members)
WhiteSpace == {" ", "\t", NL, "\r", "\f"}
\* nom multispace0
MultiSpace == {" ", "\t", NL, "\r"}
\* nom space0
Space0 == {" ", "\t"}
Digits == {"0", "1", "2", "3", "4", "5", "6", "7", "8", "9"}

TrimStartLen(s) == RunAt(s, 0, WhiteSpace)
TrimEndLen(s) ==
    CHOOSE n \in 0..Len(s) :
        /\ \A i \in 1..n : s[Len(s) + 1 - i] \in WhiteSpace
        /\ (n = Len(s) \/ s[Len(s) - n] \notin WhiteSpace)
Trim(s) ==
    IF TrimStartLen(s) = Len(s) THEN <<>>
    ELSE SubSeq(s, TrimStartLen(s) + 1, Len(s) - TrimEndLen(s))

----------------------------------------------------------------------------
(* nom_locate::LocatedSpan positions (all text here is one byte a character) *)

\* location_line: 1 + the newlines before the cursor
LocationLine(s, pos) == 1 + Cardinality({i \in 1..pos : s[i] = NL})
\* get_column: 1-indexed distance from the last newline before the cursor
GetColumn(s, pos) ==
    LET nls == {i \in 1..pos : s[i] = NL}
        last == IF nls = {} THEN 0 ELSE CHOOSE i \in nls : \A j \in nls : j <= i
    IN pos - last + 1
\* location_offset
LocationOffset(s, pos) == pos

\* Error::new(span, kind)
ErrorNew(s, pos, kind, lit) ==
    [line |-> LocationLine(s, pos), col |-> GetColumn(s, pos),
     offset |-> LocationOffset(s, pos), kind |-> kind, lit |-> lit]

NoError == [line |-> 0, col |-> 0, offset |-> 0, kind |-> "none", lit |-> <<>>]

----------------------------------------------------------------------------
(* Pie parser primitives.  A result is [ok, pos, val] or                   *)
(* [ok |-> FALSE, fatal, at, err]: fatal is nom::Err::Failure, at the      *)
(* cursor of the span the error was built from.                            *)

POk(pos, val) == [ok |-> TRUE, pos |-> pos, val |-> val]
PErr(s, pos, kind, lit) ==
    [ok |-> FALSE, fatal |-> FALSE, at |-> pos, err |-> ErrorNew(s, pos, kind, lit)]
PFail(s, pos, kind, lit) ==
    [ok |-> FALSE, fatal |-> TRUE, at |-> pos, err |-> ErrorNew(s, pos, kind, lit)]

\* ws: multispace0, never fails
PieWs(s, pos) == pos + RunAt(s, pos, MultiSpace)

\* tag(val)
PieTag(s, pos, lit) ==
    IF StartsWithAt(s, pos, lit) THEN POk(pos + Len(lit), lit)
    ELSE PErr(s, pos, "ExpectedLiteral", lit)

\* take_until("\""): the text before the first quote at or after the cursor
HasQuoteFrom(s, pos) == \E i \in (pos + 1)..Len(s) : s[i] = QUOTE
FirstQuoteFrom(s, pos) ==
    CHOOSE i \in (pos + 1)..Len(s) :
        s[i] = QUOTE /\ \A j \in (pos + 1)..(i - 1) : s[j] # QUOTE
TakeUntilQuote(s, pos, kind) ==
    IF HasQuoteFrom(s, pos)
    THEN LET K(q) == POk(q - 1, SubSeq(s, pos + 1, q - 1)) IN Bind(K, FirstQuoteFrom(s, pos))
    ELSE PErr(s, pos, kind, <<QUOTE>>)

\* opt(f): a recoverable error becomes None at the original cursor
None == [some |-> FALSE, val |-> <<>>]
Some(v) == [some |-> TRUE, val |-> v]
PieOpt(r, pos) ==
    LET K(v) == IF v.ok THEN POk(v.pos, Some(v.val))
                ELSE IF ~v.fatal THEN POk(pos, None)
                ELSE v
    IN Bind(K, r)

T_pie == <<"p", "i", "e">>
T_showData == <<"s", "h", "o", "w", "D", "a", "t", "a">>
T_title == <<"t", "i", "t", "l", "e">>

\* parse_title
ParseTitle(s, pos) ==
    LET K(t) == IF ~t.ok THEN t ELSE TakeUntilQuote(s, t.pos, "SearchLiteral")
    IN Bind(K, PieTag(s, pos, T_title))

\* parse_header, lines 112-116: val is [title, show_data], the title as
\* parse_title gives it
HeaderTokens(s, pos) ==
    LET KTitle(sd, ti) ==
            IF ~ti.ok THEN ti ELSE POk(ti.pos, [title |-> ti.val, show_data |-> sd.val.some])
        KShow(sd) ==
            IF ~sd.ok THEN sd
            ELSE LET KOpt(ti) == KTitle(sd, ti)
                     KWs(i2) == Bind(KOpt, PieOpt(ParseTitle(s, i2), i2))
                 IN Bind(KWs, PieWs(s, sd.pos))
        KPie(t) ==
            IF ~t.ok THEN t
            ELSE LET KOpt(sd) == KShow(sd)
                     KWs(i1) == Bind(KOpt, PieOpt(PieTag(s, i1, T_showData), i1))
                 IN Bind(KWs, PieWs(s, t.pos))
    IN Bind(KPie, PieTag(s, pos, T_pie))

\* parse_header that keeps the white space around the title
ParseHeaderNoTrim(s, pos) == HeaderTokens(s, pos)

\* parse_header that reports a title that is empty once trimmed as no title
ParseHeaderEmptyIsNone(s, pos) ==
    LET KTrim(h, t) ==
            POk(h.pos, [title |-> IF t = <<>> THEN None ELSE Some(t),
                        show_data |-> h.val.show_data])
        K(h) == IF ~h.ok THEN h
                ELSE LET KT(t) == KTrim(h, t) IN Bind(KT, Trim(h.val.title.val))
    IN Bind(K, HeaderTokens(s, pos))

\* parse_header, line 117: title.map(|s| s.trim())
ParseHeader(s, pos) ==
    LET K(h) ==
            IF ~h.ok THEN h
            ELSE IF ~h.val.title.some THEN h
            ELSE POk(h.pos, [title |-> Some(Trim(h.val.title.val)),
                             show_data |-> h.val.show_data])
    IN Bind(K, HeaderTokens(s, pos))

\* quoted that trims the label
QuotedTrimmed(s, pos) ==
    LET KClose(lab, q2) == IF ~q2.ok THEN q2 ELSE POk(q2.pos, Trim(lab.val))
        KLabel(lab) ==
            IF ~lab.ok THEN lab
            ELSE LET K(q2) == KClose(lab, q2) IN Bind(K, PieTag(s, lab.pos, <<QUOTE>>))
        KOpen(q1) ==
            IF ~q1.ok THEN q1 ELSE Bind(KLabel, TakeUntilQuote(s, q1.pos, "UnclosedQuote"))
    IN Bind(KOpen, PieTag(s, pos, <<QUOTE>>))

\* quoted
Quoted(s, pos) ==
    LET KClose(lab, q2) == IF ~q2.ok THEN q2 ELSE POk(q2.pos, lab.val)
        KLabel(lab) ==
            IF ~lab.ok THEN lab
            ELSE LET K(q2) == KClose(lab, q2) IN Bind(K, PieTag(s, lab.pos, <<QUOTE>>))
        KOpen(q1) ==
            IF ~q1.ok THEN q1 ELSE Bind(KLabel, TakeUntilQuote(s, q1.pos, "UnclosedQuote"))
    IN Bind(KOpen, PieTag(s, pos, <<QUOTE>>))

----------------------------------------------------------------------------
(* Floating point literals.  A value is m * 10^e with m free of trailing   *)
(* zeros (0 is m = 0, e = 0): the number a decimal literal denotes.        *)

DigitVal(c) ==
    CASE c = "0" -> 0 [] c = "1" -> 1 [] c = "2" -> 2 [] c = "3" -> 3 [] c = "4" -> 4
      [] c = "5" -> 5 [] c = "6" -> 6 [] c = "7" -> 7 [] c = "8" -> 8 [] c = "9" -> 9

RECURSIVE DigitsVal(_)
DigitsVal(ds) ==
    LET K(d) == IF d = <<>> THEN 0
                ELSE 10 * DigitsVal(Take(d, Len(d) - 1)) + DigitVal(d[Len(d)])
    IN Bind(K, ds)

RECURSIVE Normalize(_, _)
Normalize(m, e) ==
    LET K(mv, ev) == IF mv = 0 THEN [m |-> 0, e |-> 0]
                     ELSE IF mv % 10 = 0 THEN Normalize(mv \div 10, ev + 1)
                     ELSE [m |-> mv, e |-> ev]
        KE(mv) == LET KM(ev) == K(mv, ev) IN Bind(KM, e)
    IN Bind(KE, m)

SignLen(s, pos) == IF CharAt(s, pos) \in {"+", "-"} THEN 1 ELSE 0

\* <f64 as FromStr>::from_str on a text recognize_float accepted:
\* [sign] digits [. digits] [e [sign] digits]
F64Parse(t) ==
    LET KExp(neg, mag, nf, ex) ==
            Normalize(IF neg THEN 0 - mag ELSE mag, ex - nf)
        KFrac(sl, ni, nf, me) ==
            KExp(CharAt(t, 0) = "-",
                 DigitsVal(SubSeq(t, sl + 1, sl + ni) \o SubSeq(t, sl + ni + 2, sl + ni + 1 + nf)),
                 nf,
                 IF CharAt(t, me) \in {"e", "E"}
                 THEN (IF CharAt(t, me + 1) = "-" THEN 0 - 1 ELSE 1)
                        * DigitsVal(Drop(t, me + 1 + SignLen(t, me + 1)))
                 ELSE 0)
        KInt(sl, ni) ==
            IF CharAt(t, sl + ni) = "."
            THEN LET K(nf) == KFrac(sl, ni, nf, sl + ni + 1 + nf)
                 IN Bind(K, RunAt(t, sl + ni + 1, Digits))
            ELSE KFrac(sl, ni, 0, sl + ni)
        KSign(sl) == LET K(ni) == KInt(sl, ni) IN Bind(K, RunAt(t, sl, Digits))
    IN Bind(KSign, SignLen(t, 0))

\* recognize_float, the mantissa: digit1 [. [digit1]]  |  . digit1
RecognizeMantissa(s, p1) ==
    LET KFrac(start, nf, need) ==
            IF need /\ nf = 0 THEN PErr(s, start, "ExpectedFloat", <<>>)
            ELSE POk(start + nf, <<>>)
        KInt(ni) ==
            IF CharAt(s, p1 + ni) = "."
            THEN LET K(nf) == KFrac(p1 + ni + 1, nf, ni = 0)
                 IN Bind(K, RunAt(s, p1 + ni + 1, Digits))
            ELSE IF ni = 0 THEN PErr(s, p1, "ExpectedFloat", <<>>)
            ELSE POk(p1 + ni, <<>>)
    IN Bind(KInt, RunAt(s, p1, Digits))

\* nom::number::complete::recognize_float: val is the recognized text
RecognizeFloat(s, pos) ==
    LET KExp(p4, ne) ==
            IF ne >= 1 THEN POk(p4 + ne, SubSeq(s, pos + 1, p4 + ne))
            \* cut(digit1)
            ELSE PFail(s, p4, "ExpectedFloat", <<>>)
        KSign(p4) == LET K(ne) == KExp(p4, ne) IN Bind(K, RunAt(s, p4, Digits))
        KMant(mant) ==
            IF ~mant.ok THEN mant
            ELSE IF CharAt(s, mant.pos) \in {"e", "E"}
            THEN Bind(KSign, mant.pos + 1 + SignLen(s, mant.pos + 1))
            ELSE POk(mant.pos, SubSeq(s, pos + 1, mant.pos))
    IN Bind(KMant, RecognizeMantissa(s, pos + SignLen(s, pos)))

\* float
Float(s, pos) ==
    LET K(num) == IF ~num.ok THEN num ELSE POk(num.pos, F64Parse(num.val))
    IN Bind(K, RecognizeFloat(s, pos))

\* parse_datum that gives its datum without consuming it
ParseDatumStuck(s, pos) == POk(pos, [label |-> <<>>, value |-> [m |-> 0, e |-> 0]])

\* parse_datum
ParseDatum(s, pos) ==
    LET KValue(lab, v) ==
            IF ~v.ok THEN v ELSE POk(v.pos, [label |-> lab.val, value |-> v.val])
        KColon(lab, col) ==
            IF ~col.ok THEN col
            ELSE LET KFloat(v) == KValue(lab, v)
                     KWs(i2) == Bind(KFloat, Float(s, i2))
                 IN Bind(KWs, PieWs(s, col.pos))
        KLabel(lab) ==
            IF ~lab.ok THEN lab
            ELSE LET KTag(col) == KColon(lab, col)
                     KWs(i1) == Bind(KTag, PieTag(s, i1, <<":">>))
                 IN Bind(KWs, PieWs(s, lab.pos))
    IN Bind(KLabel, Quoted(s, pos))

----------------------------------------------------------------------------
(* Pie inputs: a header, data points and trailing text, written with or   *)
(* without white space between the tokens.                                  *)

MaxData == 2

PieLeads == {<<>>, <<NL, " ">>}
\* the text written after the title keyword, and that text without the
\* white space at its two ends
PieTitleTexts ==
    { [txt |-> <<>>, trimmed |-> <<>>],
      [txt |-> <<" ", NL>>, trimmed |-> <<>>],
      [txt |-> <<" ", "M", "y", " ", "T", NL>>, trimmed |-> <<"M", "y", " ", "T">>] }
PieLabels == {<<"A">>, <<" ", "\\", "n", ":", " ">>}
\* a literal and the number it denotes
PieLits ==
    << [txt |-> <<"1">>, m |-> 1, e |-> 0],
       [txt |-> <<"4", "2", ".", "9", "6">>, m |-> 4296, e |-> 0 - 2],
       [txt |-> <<"-", "2", ".", "5", "0", "e", "1">>, m |-> 0 - 25, e |-> 0] >>
PieTrails == {<<>>, <<" ", "x">>, <<QUOTE, "A">>}

PieGenData == UNION {[1..n -> [label : PieLabels, lit : 1..Len(PieLits)]] : n \in 0..MaxData}

PieGens ==
    [lead : PieLeads, show : BOOLEAN, tight : BOOLEAN,
     title : {None} \cup {Some(t) : t \in PieTitleTexts},
     data : PieGenData, trail : PieTrails]

GenSep(g) == IF g.tight THEN <<>> ELSE <<" ">>
GenDataSep(g) == IF g.tight THEN <<>> ELSE <<NL, " ">>

GenDatum(g, d) ==
    GenDataSep(g) \o <<QUOTE>> \o d.label \o <<QUOTE>> \o GenSep(g) \o <<":">>
        \o GenSep(g) \o PieLits[d.lit].txt

PieRender(g) ==
    g.lead \o T_pie
        \o (IF g.show THEN GenSep(g) \o T_showData ELSE <<>>)
        \o (IF g.title.some THEN GenSep(g) \o T_title \o g.title.val.txt ELSE <<>>)
        \o Concat([i \in 1..Len(g.data) |-> GenDatum(g, g.data[i])])
        \o g.trail

----------------------------------------------------------------------------
(* Pie::parse and parse_pie as a state machine *)

\* Pie::parse hands src.trim() to parse_pie
PieInput == Trim(p_src)

\* no earlier call
NoCall == [called |-> FALSE]

\* the flowchart parser at rest
FlowIdle ==
    /\ f_gen = <<>> /\ f_src = <<>> /\ f_pc = "idle" /\ f_lines = <<>> /\ f_rest = <<>>
    /\ f_left = <<>> /\ f_right = <<>> /\ f_dir = "none" /\ f_nodes = <<>> /\ f_edges = <<>>
    /\ f_out = [status |-> "none", why |-> ""]
    /\ f_first = NoCall

PieInit ==
    /\ FlowIdle
    /\ p_gen \in PieGens
    /\ p_src = PieRender(p_gen)
    /\ p_pc = "start"
    /\ p_pos = 0
    /\ p_title = None
    /\ p_show = FALSE
    /\ p_data = <<>>
    /\ p_res = "none"
    /\ p_err = NoError
    /\ p_failat = 0
    /\ p_out = [status |-> "none", chart |-> None]
    /\ p_first = NoCall

\* parse_pie up to its loop: LocatedSpan::new, ws, parse_header
PieParseHeader ==
    /\ p_pc = "start"
    /\ \E t \in {PieInput} : \E i \in {PieWs(t, 0)} : \E h \in {ParseHeader(t, i)} :
          IF h.ok
          THEN /\ p_pc' = "body"
               /\ p_pos' = h.pos
               /\ p_title' = h.val.title
               /\ p_show' = h.val.show_data
               \* let mut data = vec![]
               /\ p_data' = <<>>
               /\ UNCHANGED <<p_res, p_err, p_failat>>
          ELSE /\ p_pc' = "parsed"
               /\ p_res' = "err"
               /\ p_err' = h.err
               /\ p_failat' = h.at
               /\ UNCHANGED <<p_pos, p_title, p_show, p_data>>
    /\ UNCHANGED <<p_gen, p_src, p_first, p_out>>
    /\ UNCHANGED fvars

\* one iteration of the loop of parse_pie
PieLoop ==
    /\ p_pc = "body"
    /\ \E t \in {PieInput} : \E i \in {PieWs(t, p_pos)} :
          IF i = Len(t)
          THEN \* break; the rest is empty, so unreachable!() is not reached
               /\ p_pc' = "parsed"
               /\ p_res' = IF Trim(Drop(t, i)) # <<>> THEN "unreachable" ELSE "ok"
               /\ p_pos' = i
               /\ UNCHANGED <<p_data, p_err, p_failat>>
          ELSE \E d \in {ParseDatum(t, i)} :
                  IF d.ok
                  THEN /\ p_data' = Append(p_data, d.val)
                       /\ p_pos' = d.pos
                       /\ UNCHANGED <<p_pc, p_res, p_err, p_failat>>
                  ELSE /\ p_pc' = "parsed"
                       /\ p_res' = "err"
                       /\ p_err' = d.err
                       /\ p_failat' = d.at
                       /\ UNCHANGED <<p_pos, p_data>>
    /\ UNCHANGED <<p_gen, p_src, p_first, p_title, p_show, p_out>>
    /\ UNCHANGED fvars

\* Pie::parse: parse_pie(..).finish().unwrap(), then Ok(pie)
PieReturn ==
    /\ p_pc = "parsed"
    /\ p_pc' = "returned"
    /\ p_out' = IF p_res = "ok"
                THEN [status |-> "ok",
                      chart |-> Some([title |-> p_title, show_data |-> p_show, data |-> p_data])]
                ELSE [status |-> "panic", chart |-> None]
    /\ UNCHANGED <<p_gen, p_src, p_first, p_pos, p_title, p_show, p_data, p_res, p_err, p_failat>>
    /\ UNCHANGED fvars

\* what the caller of Pie::parse has in hand when it returns or aborts
PieOutcome == p_out

\* the caller calls Pie::parse again on the same text; what the first call
\* left in memory is still there
PieParseAgain ==
    /\ p_pc = "returned"
    /\ ~p_first.called
    /\ p_first' = [called |-> TRUE, out |-> PieOutcome]
    /\ p_pc' = "start"
    /\ p_res' = "none"
    /\ p_err' = NoError
    /\ p_failat' = 0
    /\ p_out' = [status |-> "none", chart |-> None]
    /\ UNCHANGED <<p_gen, p_src, p_pos, p_title, p_show, p_data>>
    /\ UNCHANGED fvars

PieNext == PieParseHeader \/ PieLoop \/ PieReturn \/ PieParseAgain

SpecPie == PieInit /\ [][PieNext]_vars

----------------------------------------------------------------------------
(* Flowchart parser primitives.  The cursor is the remaining text.  A      *)
(* result is [ok, rest, val] or [ok |-> FALSE, kind, why]: kind "err" is a  *)
(* returned nom error, kind "panic" an abort.                              *)

FOk(rest, val) == [ok |-> TRUE, rest |-> rest, val |-> val]
FErr(why) == [ok |-> FALSE, kind |-> "err", why |-> why]
FPanic(why) == [ok |-> FALSE, kind |-> "panic", why |-> why]

StartsWith(s, t) == StartsWithAt(s, 0, t)

Letters ==
    {"a", "b", "c", "d", "e", "f", "g", "h", "i", "j", "k", "l", "m", "n", "o", "p", "q",
     "r", "s", "t", "u", "v", "w", "x", "y", "z",
     "A", "B", "C", "D", "E", "F", "G", "H", "I", "J", "K", "L", "M", "N", "O", "P", "Q",
     "R", "S", "T", "U", "V", "W", "X", "Y", "Z"}
AlphaNum == Letters \cup Digits

\* bytes of a character in UTF-8
ByteWidth(c) == IF c = "é" THEN 2 ELSE 1

\* ws: space0
FlowWs(s) == Drop(s, RunAt(s, 0, Space0))

\* ident: alphanumeric1
Ident(s) ==
    LET K(n) == IF n = 0 THEN FErr("AlphaNumeric") ELSE FOk(Drop(s, n), Take(s, n))
    IN Bind(K, RunAt(s, 0, AlphaNum))

\* the first of the tags, in order, the text starts with (0: none)
FirstTag(tags, s) ==
    IF \E k \in 1..Len(tags) : StartsWith(s, tags[k])
    THEN CHOOSE k \in 1..Len(tags) :
            StartsWith(s, tags[k]) /\ \A j \in 1..(k - 1) : ~StartsWith(s, tags[j])
    ELSE 0

\* the start delimiters tried shortest first
StyleStartsShortFirst ==
    << <<"[">>, <<"(">>, <<">">>, <<"{">>, <<"(", "[">>, <<"[", "[">>, <<"[", "(">>,
       <<"(", "(">>, <<"{", "{">>, <<"[", "/">>, <<"[", "\\">>, <<"(", "(", "(">> >>

StyleStarts ==
    << <<"(", "(", "(">>, <<"(", "[">>, <<"[", "[">>, <<"[", "(">>, <<"(", "(">>,
       <<"{", "{">>, <<"[", "/">>, <<"[", "\\">>, <<"[">>, <<"(">>, <<">">>, <<"{">> >>

\* node_style_start
NodeStyleStart(s) ==
    LET K(k) == IF k = 0 THEN FErr("Tag") ELSE FOk(Drop(s, Len(StyleStarts[k])), StyleStarts[k])
    IN Bind(K, FirstTag(StyleStarts, s))

\* node_style_end: the (end delimiter, style) tests of a start delimiter
NodeStyleEnd(start) ==
    CASE start = <<"[">> -> << [test |-> <<"]">>, style |-> "Square"] >>
      [] start = <<"(">> -> << [test |-> <<")">>, style |-> "Round"] >>
      [] start = <<"(", "[">> -> << [test |-> <<"]", ")">>, style |-> "Stadium"] >>
      [] start = <<"[", "[">> -> << [test |-> <<"]", "]">>, style |-> "Subroutine"] >>
      [] start = <<"[", "(">> -> << [test |-> <<")", "]">>, style |-> "Cylinder"] >>
      [] start = <<"(", "(">> -> << [test |-> <<")", ")">>, style |-> "Circle"] >>
      [] start = <<">">> -> << [test |-> <<"]">>, style |-> "Asymmetric"] >>
      [] start = <<"{">> -> << [test |-> <<"}">>, style |-> "Rhombus"] >>
      [] start = <<"{", "{">> -> << [test |-> <<"}", "}">>, style |-> "Hexagon"] >>
      [] start = <<"[", "/">> ->
            << [test |-> <<"/", "]">>, style |-> "Parallelogram"],
               [test |-> <<"\\", "]">>, style |-> "Trapezoid"] >>
      [] start = <<"[", "\\">> ->
            << [test |-> <<"\\", "]">>, style |-> "ParallelogramRev"],
               [test |-> <<"/", "]">>, style |-> "TrapezoidRev"] >>
      [] start = <<"(", "(", "(">> ->
            << [test |-> <<")", ")", ")">>, style |-> "DoubleCircle"] >>

\* match_end_tester
MatchEndTester(tests, s) ==
    LET K(k) == IF k = 0 THEN FErr("Tag") ELSE FOk(Drop(s, Len(tests[k].test)), tests[k].style)
    IN Bind(K, FirstTag([j \in 1..Len(tests) |-> tests[j].test], s))

\* node_label_quoted that returns an error when the closing quote is missing
NodeLabelQuotedNoAbort(s) ==
    IF ~StartsWith(s, <<QUOTE>>) THEN FErr("Tag")
    ELSE IF ~HasQuoteFrom(s, 1) THEN FErr("TakeUntil")
    ELSE LET K(q) == FOk(Drop(s, q), SubSeq(s, 2, q - 1)) IN Bind(K, FirstQuoteFrom(s, 1))

\* node_label_quoted: s starts with a quote
NodeLabelQuoted(s) ==
    IF ~StartsWith(s, <<QUOTE>>) THEN FErr("Tag")
    ELSE IF ~HasQuoteFrom(s, 1) THEN FPanic("TODO error handling")
    ELSE LET K(q) == FOk(Drop(s, q), SubSeq(s, 2, q - 1)) IN Bind(K, FirstQuoteFrom(s, 1))

\* input_until that takes the end tests in turn and stops at the first
\* occurrence of the first test found anywhere in the line
InputUntilByTest(tests, s) ==
    LET Found == {j \in 1..Len(tests) :
                    \E k \in 0..(Len(s) - 1) : StartsWithAt(s, k, tests[j].test)}
        KAt(j, k) == FOk(Drop(s, k + Len(tests[j].test)),
                         [label |-> Take(s, k), style |-> tests[j].style])
        KTest(j) ==
            Bind(LAMBDA k : KAt(j, k),
                 CHOOSE k \in 0..(Len(s) - 1) :
                     /\ StartsWithAt(s, k, tests[j].test)
                     /\ \A i \in 0..(k - 1) : ~StartsWithAt(s, i, tests[j].test))
        KFound(f) ==
            IF f = {} THEN FErr("TakeUntil")
            ELSE Bind(KTest, CHOOSE j \in f : \A i \in f : j <= i)
    IN Bind(KFound, Found)

\* input_until(p): the byte offsets 0..input_len-1 in turn; take_split aborts
\* on an offset inside a character.  Scanning stops at the first character
\* cursor k where p matches or where the next offset is inside character k+1.
InputUntil(tests, s) ==
    LET Stops == {k \in 0..(Len(s) - 1) :
                    MatchEndTester(tests, Drop(s, k)).ok \/ ByteWidth(s[k + 1]) > 1}
        KEnd(k, e) ==
            IF e.ok THEN FOk(e.rest, [label |-> Take(s, k), style |-> e.val])
            ELSE FPanic("byte index is not a char boundary")
        KStop(k) == Bind(LAMBDA e : KEnd(k, e), MatchEndTester(tests, Drop(s, k)))
        KStops(st) ==
            IF st = {} THEN FErr("TakeUntil")
            ELSE Bind(KStop, CHOOSE k \in st : \A j \in st : k <= j)
    IN Bind(KStops, Stops)

\* node_label_unquoted
NodeLabelUnquoted(style_start, s) ==
    Bind(LAMBDA tests : InputUntil(tests, s), NodeStyleEnd(style_start))

\* node that scans a quoted label like one without quotes
NodeShapedScanOnly(id, style_start, i) ==
    LET KUnquoted(lab) ==
            IF ~lab.ok THEN lab
            ELSE FOk(lab.rest, [id |-> id, label |-> lab.val.label, style |-> lab.val.style])
    IN Bind(KUnquoted, NodeLabelUnquoted(style_start, i))

\* node, lines 166-177: the label and the end delimiter after a start delimiter
NodeShaped(id, style_start, i) ==
    LET KEnd(lab, e) ==
            IF ~e.ok THEN e ELSE FOk(e.rest, [id |-> id, label |-> lab.val, style |-> e.val])
        KQuoted(lab) ==
            IF ~lab.ok THEN lab
            ELSE Bind(LAMBDA e : KEnd(lab, e),
                      MatchEndTester(NodeStyleEnd(style_start), FlowWs(lab.rest)))
        KUnquoted(lab) ==
            IF ~lab.ok THEN lab
            ELSE FOk(lab.rest, [id |-> id, label |-> lab.val.label, style |-> lab.val.style])
    IN IF CharAt(i, 0) = QUOTE THEN Bind(KQuoted, NodeLabelQuoted(i))
       ELSE Bind(KUnquoted, NodeLabelUnquoted(style_start, i))

\* node with the bare identifier given the round shape
NodeBareIsRound(s) ==
    LET KStart(id, i1, st) ==
            IF ~st.ok THEN FOk(i1, [id |-> id.val, label |-> <<>>, style |-> "Round"])
            ELSE Bind(LAMBDA i : NodeShaped(id.val, st.val, i), FlowWs(st.rest))
        KWs(id, i1) == Bind(LAMBDA st : KStart(id, i1, st), NodeStyleStart(i1))
        KIdent(id) == IF ~id.ok THEN id ELSE Bind(LAMBDA i1 : KWs(id, i1), FlowWs(id.rest))
    IN Bind(KIdent, Ident(s))

\* node
Node(s) ==
    LET KStart(id, i1, st) ==
            IF ~st.ok THEN FOk(i1, [id |-> id.val, label |-> <<>>, style |-> "Square"])
            ELSE Bind(LAMBDA i : NodeShaped(id.val, st.val, i), FlowWs(st.rest))
        KWs(id, i1) == Bind(LAMBDA st : KStart(id, i1, st), NodeStyleStart(i1))
        KIdent(id) == IF ~id.ok THEN id ELSE Bind(LAMBDA i1 : KWs(id, i1), FlowWs(id.rest))
    IN Bind(KIdent, Ident(s))

\* node_list: the while loop, nodes the vector so far
RECURSIVE NodeListLoop(_, _)
NodeListLoop(nodes, s) ==
    LET K(n) ==
            IF ~n.ok THEN n
            ELSE Bind(LAMBDA ns : Bind(LAMBDA i : NodeListLoop(ns, i), FlowWs(n.rest)),
                      Append(nodes, n.val))
    IN IF CharAt(s, 0) = "&"
       THEN Bind(LAMBDA i : Bind(K, Node(i)), FlowWs(Drop(s, 1)))
       ELSE FOk(s, nodes)

\* node_list
NodeList(s) ==
    LET K(first) ==
            IF ~first.ok THEN first
            ELSE Bind(LAMBDA i : NodeListLoop(<<first.val>>, i), FlowWs(first.rest))
    IN Bind(K, Node(s))

----------------------------------------------------------------------------
(* Connectors *)

U16Max == 65535

\* arrow(start)
Arrow(start, s) ==
    LET K(c) ==
            IF c = "o" THEN FOk(Drop(s, 1), "Circle")
            ELSE IF c = "x" THEN FOk(Drop(s, 1), "Cross")
            ELSE IF c = (IF start THEN "<" ELSE ">") THEN FOk(Drop(s, 1), "Arrow")
            ELSE FErr("Tag")
    IN Bind(K, CharAt(s, 0))

\* opt(arrow(start)): val is Some(style) or None
OptArrow(start, s) ==
    LET K(a) == IF a.ok THEN FOk(a.rest, Some(a.val)) ELSE FOk(s, None)
    IN Bind(K, Arrow(start, s))

\* line
Line(s) ==
    LET K(c) ==
            IF c = "-" THEN FOk(Drop(s, 1), "Normal")
            ELSE IF c = "=" THEN FOk(Drop(s, 1), "Thick")
            ELSE FErr("Tag")
    IN Bind(K, CharAt(s, 0))

\* LineTy::set that accepts any style after any other
LineTySetAny(ty, style) == FOk(<<>>, Some(style))

\* LineTy::set(..).expect(..): the new type, or the abort on a mixed line
LineTySet(ty, style) ==
    IF ty.some /\ ty.val # style THEN FPanic("TODO error handling") ELSE FOk(<<>>, Some(style))

MkConnector(line_style, arrow_start, arrow_end, rank) ==
    [line_style |-> line_style, arrow_start |-> arrow_start, arrow_end |-> arrow_end,
     label |-> <<>>, rank |-> rank]

\* connector_dotted with the solid rule for a missing end arrow
ConnectorDottedArrowRank(s) ==
    LET KEnd(a1, rank, a2) ==
            IF rank > U16Max THEN FPanic("rank must be <= 65535")
            ELSE FOk(FlowWs(a2.rest),
                     MkConnector("Dotted", a1.val, a2.val,
                                 IF a2.val.some THEN rank ELSE rank - 1))
        KDots(a1, i1, rank) ==
            IF rank = 0 THEN FErr("Many1Count")
            ELSE IF CharAt(i1, rank) # "-" THEN FErr("Tag")
            ELSE Bind(LAMBDA a2 : KEnd(a1, rank, a2), OptArrow(FALSE, Drop(i1, rank + 1)))
        KDash(a1, i1) == Bind(LAMBDA rank : KDots(a1, i1, rank), RunAt(i1, 0, {"."}))
        KStart(a1) ==
            IF CharAt(a1.rest, 0) # "-" THEN FErr("Tag")
            ELSE Bind(LAMBDA i1 : KDash(a1, i1), Drop(a1.rest, 1))
    IN Bind(KStart, OptArrow(TRUE, s))

\* connector_dotted
ConnectorDotted(s) ==
    LET KEnd(a1, rank, a2) ==
            IF rank > U16Max THEN FPanic("rank must be <= 65535")
            ELSE FOk(FlowWs(a2.rest), MkConnector("Dotted", a1.val, a2.val, rank))
        KDots(a1, i1, rank) ==
            IF rank = 0 THEN FErr("Many1Count")
            ELSE IF CharAt(i1, rank) # "-" THEN FErr("Tag")
            ELSE Bind(LAMBDA a2 : KEnd(a1, rank, a2), OptArrow(FALSE, Drop(i1, rank + 1)))
        KDash(a1, i1) == Bind(LAMBDA rank : KDots(a1, i1, rank), RunAt(i1, 0, {"."}))
        KStart(a1) ==
            IF CharAt(a1.rest, 0) # "-" THEN FErr("Tag")
            ELSE Bind(LAMBDA i1 : KDash(a1, i1), Drop(a1.rest, 1))
    IN Bind(KStart, OptArrow(TRUE, s))

\* connector_solid: the while loop counting the line segments.  rank is u16:
\* past U16Max the addition aborts (overflow checks on) or wraps (off).
RECURSIVE SolidLoop(_, _, _)
SolidLoop(s, ty, rank) ==
    LET KSet(l, t) ==
            IF ~t.ok THEN t
            ELSE IF rank + 1 > U16Max THEN FPanic("attempt to add with overflow")
            ELSE Bind(LAMBDA r : SolidLoop(l.rest, t.val, r), rank + 1)
        KLine(l) == Bind(LAMBDA t : KSet(l, t), LineTySet(ty, l.val))
    IN IF CharAt(s, 0) \in {"=", "-"} THEN Bind(KLine, Line(s)) ELSE FOk(s, rank)

\* the end of connector_solid without the rank -= 1 of line 313
SolidEndKeepsRank(line_style, arrow_start, run) ==
    LET K(a2) == FOk(a2.rest, MkConnector(line_style, arrow_start, a2.val, run.val))
    IN Bind(K, OptArrow(FALSE, run.rest))

\* connector_solid, lines 309-325: the end arrow and the rank
SolidEnd(line_style, arrow_start, run) ==
    LET K(a2) ==
            FOk(a2.rest,
                MkConnector(line_style, arrow_start, a2.val,
                            \* if there is no arrow the last line segment does not count
                            IF a2.val.some THEN run.val ELSE run.val - 1))
    IN Bind(K, OptArrow(FALSE, run.rest))

\* connector_solid in which a leading arrow glyph does not count towards the rank
ConnectorSolidLeadFree(s) ==
    LET KRun(a1, ty, run) ==
            IF ~run.ok THEN run ELSE SolidEnd(ty.val.val, a1.val, run)
        KSet(a1, l1, ty) ==
            IF ~ty.ok THEN ty
            ELSE Bind(LAMBDA run : KRun(a1, ty, run), SolidLoop(l1.rest, ty.val, IF a1.val.some THEN 0 ELSE 1))
        KLine(a1, ty0, l1) ==
            IF ~l1.ok THEN l1 ELSE Bind(LAMBDA ty : KSet(a1, l1, ty), LineTySet(ty0, l1.val))
        \* if no arrow, there is an extra line segment
        KExtra(a1, l0) ==
            IF ~l0.ok THEN l0
            ELSE Bind(LAMBDA l1 : KLine(a1, LineTySet(None, l0.val).val, l1), Line(l0.rest))
        KStart(a1) ==
            IF a1.val.some THEN Bind(LAMBDA l1 : KLine(a1, None, l1), Line(a1.rest))
            ELSE Bind(LAMBDA l0 : KExtra(a1, l0), Line(a1.rest))
    IN Bind(KStart, OptArrow(TRUE, s))

\* connector_solid
ConnectorSolid(s) ==
    LET KRun(a1, ty, run) ==
            IF ~run.ok THEN run ELSE SolidEnd(ty.val.val, a1.val, run)
        KSet(a1, l1, ty) ==
            IF ~ty.ok THEN ty
            ELSE Bind(LAMBDA run : KRun(a1, ty, run), SolidLoop(l1.rest, ty.val, 1))
        KLine(a1, ty0, l1) ==
            IF ~l1.ok THEN l1 ELSE Bind(LAMBDA ty : KSet(a1, l1, ty), LineTySet(ty0, l1.val))
        \* if no arrow, there is an extra line segment
        KExtra(a1, l0) ==
            IF ~l0.ok THEN l0
            ELSE Bind(LAMBDA l1 : KLine(a1, LineTySet(None, l0.val).val, l1), Line(l0.rest))
        KStart(a1) ==
            IF a1.val.some THEN Bind(LAMBDA l1 : KLine(a1, None, l1), Line(a1.rest))
            ELSE Bind(LAMBDA l0 : KExtra(a1, l0), Line(a1.rest))
    IN Bind(KStart, OptArrow(TRUE, s))

\* connector: alt((connector_dotted, connector_solid))
Connector(s) ==
    LET K(d) == IF d.ok \/ d.kind = "panic" THEN d ELSE ConnectorSolid(s)
    IN Bind(K, ConnectorDotted(s))

----------------------------------------------------------------------------
(* The flowchart model: Flowchart::add_node, Flowchart::add_edge *)

\* Node::is_id
IsId(node) == node.label = <<>>

\* add_node where a node without label replaces the registered one
AddNodeLastWins(nodes, node) ==
    IF IsId(node)
    THEN [why |-> "", nodes |-> (node.id :> node) @@ nodes]
    ELSE [why |-> IF node.id \in DOMAIN nodes THEN "node with given name already exists" ELSE "",
          nodes |-> (node.id :> node) @@ nodes]

\* Flowchart::add_node: [why, nodes], why the abort message or ""
AddNode(nodes, node) ==
    IF IsId(node)
    THEN \* only insert the node if it's not there
         [why |-> "",
          nodes |-> IF node.id \in DOMAIN nodes THEN nodes ELSE (node.id :> node) @@ nodes]
    ELSE \* insert the node and panic if one is already there
         [why |-> IF node.id \in DOMAIN nodes THEN "node with given name already exists" ELSE "",
          nodes |-> (node.id :> node) @@ nodes]

\* for node in list { flow.add_node(node) }
RECURSIVE AddNodes(_, _)
AddNodes(nodes, list) ==
    LET K(r) == IF r.why # "" THEN r ELSE AddNodes(r.nodes, Tail(list))
    IN IF list = <<>> THEN [why |-> "", nodes |-> nodes]
       ELSE Bind(K, AddNode(nodes, Head(list)))

\* add_edge that replaces the edge of a pair that already has one
AddEdgeReplaces(nodes, edges, from, to, conn) ==
    IF ~(from \in DOMAIN nodes /\ to \in DOMAIN nodes)
    THEN [why |-> "assertion failed", edges |-> edges]
    ELSE [why |-> "", edges |-> (<<from, to>> :> conn) @@ edges]

\* Flowchart::add_edge: [why, edges]
AddEdge(nodes, edges, from, to, conn) ==
    IF ~(from \in DOMAIN nodes /\ to \in DOMAIN nodes)
    THEN [why |-> "assertion failed", edges |-> edges]
    ELSE [why |-> IF <<from, to>> \in DOMAIN edges THEN "edge already exists" ELSE "",
          edges |-> (<<from, to>> :> conn) @@ edges]

\* the loops of parse_line with `for right in rights` cut to the first right node
RECURSIVE AddEdgesFirstRight(_, _, _, _, _, _, _)
AddEdgesFirstRight(nodes, edges, lefts, rights, conn, i, j) ==
    LET K(r) == IF r.why # "" THEN r
                ELSE AddEdgesFirstRight(nodes, r.edges, lefts, rights, conn, i + 1, 1)
    IN IF i > Len(lefts) THEN [why |-> "", edges |-> edges]
       ELSE Bind(K, AddEdge(nodes, edges, lefts[i].id, rights[1].id, conn))

\* for left in lefts { for right in rights { flow.add_edge(left.id, right.id, conn) } }
\* from the pair (i, j) on
RECURSIVE AddEdges(_, _, _, _, _, _, _)
AddEdges(nodes, edges, lefts, rights, conn, i, j) ==
    LET K(r) == IF r.why # "" THEN r
                ELSE AddEdges(nodes, r.edges, lefts, rights, conn, i, j + 1)
    IN IF i > Len(lefts) THEN [why |-> "", edges |-> edges]
       ELSE IF j > Len(rights) THEN AddEdges(nodes, edges, lefts, rights, conn, i + 1, 1)
       ELSE Bind(K, AddEdge(nodes, edges, lefts[i].id, rights[j].id, conn))

\* parse_line that adds the edges without registering the nodes of `added`
ConnectUnregistered(nodes, edges, added, lefts, rights, conn) ==
    LET KEdges(e) == [why |-> e.why, nodes |-> nodes, edges |-> e.edges]
    IN Bind(KEdges, AddEdges(nodes, edges, lefts, rights, conn, 1, 1))

\* parse_line, lines 88-98 and 114-121: register the nodes of `added`, then
\* add the edges lefts x rights: [why, nodes, edges]
Connect(nodes, edges, added, lefts, rights, conn) ==
    LET KEdges(n, e) == [why |-> e.why, nodes |-> n.nodes, edges |-> e.edges]
        KNodes(n) ==
            IF n.why # "" THEN [why |-> n.why, nodes |-> n.nodes, edges |-> edges]
            ELSE Bind(LAMBDA e : KEdges(n, e),
                      AddEdges(n.nodes, edges, lefts, rights, conn, 1, 1))
    IN Bind(KNodes, AddNodes(nodes, added))

----------------------------------------------------------------------------
(* Flowchart texts *)

T_flowchart == <<"f", "l", "o", "w", "c", "h", "a", "r", "t">>

\* direction
Direction(s) ==
    IF StartsWith(s, <<"T", "B">>) \/ StartsWith(s, <<"T", "D">>) THEN FOk(Drop(s, 2), "TopBottom")
    ELSE IF StartsWith(s, <<"B", "T">>) THEN FOk(Drop(s, 2), "BottomTop")
    ELSE IF StartsWith(s, <<"R", "L">>) THEN FOk(Drop(s, 2), "RightLeft")
    ELSE IF StartsWith(s, <<"L", "R">>) THEN FOk(Drop(s, 2), "LeftRight")
    ELSE FErr("Tag")

\* flowchart, lines 40-43: val is the direction, rest the text after it
FlowHeader(s) ==
    LET K(i1) ==
            IF ~StartsWith(i1, T_flowchart) THEN FErr("Tag")
            ELSE Bind(Direction, FlowWs(Drop(i1, Len(T_flowchart))))
    IN Bind(K, Drop(s, RunAt(s, 0, MultiSpace)))

\* str::lines
RECURSIVE Lines(_)
Lines(s) ==
    LET StripCr(l) == IF l # <<>> /\ l[Len(l)] = "\r" THEN Take(l, Len(l) - 1) ELSE l
        K(nls) ==
            IF nls = {} THEN <<StripCr(s)>>
            ELSE LET KFirst(i) == <<StripCr(Take(s, i - 1))>> \o Bind(Lines, Drop(s, i))
                 IN Bind(KFirst, CHOOSE i \in nls : \A j \in nls : i <= j)
    IN IF s = <<>> THEN <<>> ELSE Bind(K, {i \in 1..Len(s) : s[i] = NL})

\* parse_line, lines 82-87: val is [left, conn, right]
ParseFirst(s) ==
    LET KRight(l, c, r) ==
            IF ~r.ok THEN r
            ELSE FOk(FlowWs(r.rest), [left |-> l.val, conn |-> c.val, right |-> r.val])
        KConn(l, c) ==
            IF ~c.ok THEN c
            ELSE Bind(LAMBDA r : KRight(l, c, r), Bind(NodeList, FlowWs(c.rest)))
        KLeft(l) ==
            IF ~l.ok THEN l
            ELSE Bind(LAMBDA c : KConn(l, c), Bind(Connector, FlowWs(l.rest)))
    IN Bind(KLeft, NodeList(s))

\* parse_line, lines 108-111: val is [conn, right]
ParseMore(s) ==
    LET KRight(c, r) ==
            IF ~r.ok THEN r ELSE FOk(FlowWs(r.rest), [conn |-> c.val, right |-> r.val])
        KConn(c) ==
            IF ~c.ok THEN c
            ELSE Bind(LAMBDA r : KRight(c, r), Bind(NodeList, FlowWs(c.rest)))
    IN Bind(KConn, Connector(s))

\* Inputs: statements written from node lists and connectors
MaxLines == 2
MaxSegs == 4
MaxDots == 3

FlowIds == {<<"A">>, <<"B">>, <<"C">>}
DirTexts == {<<"T", "B">>, <<"T", "D">>, <<"B", "T">>, <<"R", "L">>, <<"L", "R">>}
ArrowGlyphsStart == {<<>>, <<"<">>, <<"o">>, <<"x">>}
ArrowGlyphsEnd == {<<>>, <<">">>, <<"o">>, <<"x">>}

\* a connector as written: lead, line characters (the dots of a dotted one), trail
SolidConns ==
    [lead : ArrowGlyphsStart, kind : {"solid"},
     line : UNION {[1..n -> {"-", "="}] : n \in 1..MaxSegs}, trail : ArrowGlyphsEnd]
DottedConns ==
    [lead : ArrowGlyphsStart, kind : {"dotted"},
     line : {[i \in 1..n |-> "."] : n \in 1..MaxDots}, trail : ArrowGlyphsEnd]
ArrowConn == [lead |-> <<>>, kind |-> "solid", line |-> <<"-", "-">>, trail |-> <<">">>]

ConnText(c) ==
    c.lead \o (IF c.kind = "dotted" THEN <<"-">> \o c.line \o <<"-">> ELSE c.line) \o c.trail

\* a statement: node lists (each a sequence of node texts) joined by connectors
Stmt(lists, conns) == [lists |-> lists, conns |-> conns]
ConnStmts == {Stmt(<< <<(<<"A">>)>>, <<(<<"B">>)>> >>, <<c>>) : c \in SolidConns \cup DottedConns}
SimpleLists == {<<id>> : id \in FlowIds} \cup {<< <<"B">>, <<"C">> >>}
SimpleStmts ==
    {Stmt(<<l, r>>, <<ArrowConn>>) : l \in SimpleLists, r \in SimpleLists}
      \cup {Stmt(<< <<a>>, <<b>>, <<c>> >>, <<ArrowConn, ArrowConn>>) :
                a \in {<<"A">>, <<"B">>}, b \in {<<"A">>, <<"B">>}, c \in {<<"B">>, <<"C">>}}

\* a node as written: identifier, start delimiter, text between the delimiters,
\* end delimiter (all three empty for a bare identifier), and the shape the
\* delimiter pair stands for
Mention(id, open, body, close, style) ==
    [txt |-> id \o open \o body \o close, id |-> id, open |-> open, body |-> body,
     close |-> close, style |-> style]
Bare(id) == Mention(id, <<>>, <<>>, <<>>, "Square")
Pads == {<<>>, <<" ">>}
SubroutineMentions ==
    {Mention(<<"A">>, <<"[", "[">>, pre \o <<"t", "e", "x", "t">> \o post, <<"]", "]">>,
             "Subroutine") : pre \in Pads, post \in Pads}
Arrow4Conn ==
    [lead |-> <<>>, kind |-> "solid", line |-> <<"-", "-", "-", "-">>, trail |-> <<">">>]
\* A[[ text ]] ----> C & D, with and without the blanks around the label
ShapedStmts ==
    {Stmt(<< <<m.txt>>, << <<"C">>, <<"D">> >> >>, <<Arrow4Conn>>) : m \in SubroutineMentions}

\* connectors as written, each with the Connector it stands for
Written(lead, kind, line, trail, expect) ==
    [lead |-> lead, kind |-> kind, line |-> line, trail |-> trail, expect |-> expect]
KnownConns ==
    {Written(<<>>, "solid", <<"-", "-">>, <<">">>, MkConnector("Normal", None, Some("Arrow"), 1)),
     Written(<<>>, "solid", <<"=", "=", "=">>, <<>>, MkConnector("Thick", None, None, 1)),
     Written(<<"<">>, "dotted", <<".">>, <<">">>,
             MkConnector("Dotted", Some("Arrow"), Some("Arrow"), 1)),
     Written(<<"x">>, "solid", <<"=", "=">>, <<"o">>,
             MkConnector("Thick", Some("Cross"), Some("Circle"), 2))}
\* L c R: two node lists joined by one connector
FanLefts == {<< <<"A">> >>, << <<"A">>, <<"B">> >>, << <<"B">>, <<"A">> >>}
FanRights ==
    {<< <<"C">> >>, << <<"C">>, <<"D">> >>, << <<"A">> >>, << <<"A">>, <<"C">> >>,
     << <<"B">>, <<"B">> >>}
FanStmts == {Stmt(<<l, r>>, <<c>>) : l \in FanLefts, r \in FanRights, c \in KnownConns}

\* N1 c1 N2 c2 N3 ...: 2..MaxChain connectors in one statement
MaxChain == 3
ChainLists == {<< <<"A">> >>, << <<"B">> >>, << <<"C">> >>, << <<"B">>, <<"D">> >>}
\* `-->` and `x==o`
ChainConns ==
    {w \in KnownConns : w.trail = <<">">> /\ w.lead = <<>>}
        \cup {w \in KnownConns : w.lead = <<"x">>}
ChainStmts ==
    UNION {{Stmt(ls, cs) : ls \in [1..(n + 1) -> ChainLists], cs \in [1..n -> ChainConns]} :
            n \in 2..MaxChain}

\* ways to write node A: bare, with a label in two shapes, with another label,
\* with delimiters around nothing, and with a label that never closes
AMentions ==
    {Bare(<<"A">>),
     Mention(<<"A">>, <<"[">>, <<"x">>, <<"]">>, "Square"),
     Mention(<<"A">>, <<"(">>, <<"x">>, <<")">>, "Round"),
     Mention(<<"A">>, <<"[">>, <<"y">>, <<"]">>, "Square"),
     Mention(<<"A">>, <<"(", "(">>, <<>>, <<")", ")">>, "Circle"),
     Mention(<<"A">>, <<"(">>, <<>>, <<")">>, "Round"),
     Mention(<<"A">>, <<"{", "{">>, <<>>, <<"}", "}">>, "Hexagon"),
     Mention(<<"A">>, <<"[">>, <<"x">>, <<>>, "Unclosed")}
\* m1 --> B / m2 --> C on two lines, and m1 --> m2 on one
DeclTexts ==
    {<<Stmt(<< <<m1.txt>>, << <<"B">> >> >>, <<ArrowConn>>),
       Stmt(<< <<m2.txt>>, << <<"C">> >> >>, <<ArrowConn>>)>> : m1 \in AMentions, m2 \in AMentions}
      \cup {<<Stmt(<< <<m1.txt>>, <<m2.txt>> >>, <<ArrowConn>>)>> :
                m1 \in AMentions, m2 \in AMentions}

\* the shapes as written: start delimiter, end delimiter, shape
Pair(open, close, style) == [open |-> open, close |-> close, style |-> style]
ShapePairs ==
    {Pair(<<"[">>, <<"]">>, "Square"),
     Pair(<<"(">>, <<")">>, "Round"),
     Pair(<<"(", "[">>, <<"]", ")">>, "Stadium"),
     Pair(<<"[", "[">>, <<"]", "]">>, "Subroutine"),
     Pair(<<"[", "(">>, <<")", "]">>, "Cylinder"),
     Pair(<<"(", "(">>, <<")", ")">>, "Circle"),
     Pair(<<"(", "(", "(">>, <<")", ")", ")">>, "DoubleCircle"),
     Pair(<<">">>, <<"]">>, "Asymmetric"),
     Pair(<<"{">>, <<"}">>, "Rhombus"),
     Pair(<<"{", "{">>, <<"}", "}">>, "Hexagon"),
     Pair(<<"[", "/">>, <<"/", "]">>, "Parallelogram"),
     Pair(<<"[", "/">>, <<"\\", "]">>, "Trapezoid"),
     Pair(<<"[", "\\">>, <<"\\", "]">>, "ParallelogramRev"),
     Pair(<<"[", "\\">>, <<"/", "]">>, "TrapezoidRev")}
\* node id in every shape, around the text body
ShapedMentions(id, body) == {Mention(id, p.open, body, p.close, p.style) : p \in ShapePairs}
\* a start delimiter and no end delimiter, or the end delimiter of another shape
UnclosedMentions ==
    {Mention(<<"A">>, p.open, <<"x">>, <<>>, "Unclosed") : p \in ShapePairs}
        \cup {Mention(<<"A">>, <<"[">>, <<"x">>, <<")">>, "Unmatched"),
              Mention(<<"A">>, <<"(">>, <<"x">>, <<"]">>, "Unmatched"),
              Mention(<<"A">>, <<"{", "{">>, <<"x">>, <<"}">>, "Unmatched")}
\* labels written between double quotes
QuotedTexts ==
    {<<"q">>, <<"q", " ", ")", ")", " ", "t">>, <<" ", "q">>, <<"]">>, <<"é">>}
QuotedPairs == {p \in ShapePairs : p.style \in {"Square", "Circle", "Trapezoid"}}
QuotedMentions ==
    UNION {{Mention(<<"A">>, p.open, pre \o <<QUOTE>> \o q \o <<QUOTE>> \o post, p.close,
                    p.style),
            Mention(<<"A">>, p.open, pre \o <<QUOTE>> \o q \o <<QUOTE>> \o post, <<>>,
                    "Unclosed"),
            Mention(<<"A">>, p.open, pre \o <<QUOTE>> \o q \o <<QUOTE>> \o post, <<"}">>,
                    "Unmatched")} :
           p \in QuotedPairs, q \in QuotedTexts, pre \in Pads, post \in Pads}
        \cup {Mention(<<"A">>, p.open, <<QUOTE, "q">>, p.close, "UnclosedQuote") :
                  p \in QuotedPairs}
\* labels with a character of two bytes
WideMentions ==
    {Mention(<<"A">>, <<"[">>, <<"é">>, <<"]">>, "Square"),
     Mention(<<"A">>, <<"(">>, <<"x", "é", "y">>, <<")">>, "Round")}
NodeMentions ==
    ShapedMentions(<<"A">>, <<"x">>) \cup ShapedMentions(<<"A">>, <<>>)
        \cup ShapedMentions(<<"A">>, <<"x", ")", " ", "y">>)
        \cup UnclosedMentions \cup QuotedMentions \cup WideMentions
\* m --> B, and two slanted shapes in one statement
SlantMentions(id, body) == {m \in ShapedMentions(id, body) : m.open[1] = "[" /\ Len(m.open) = 2
                                                               /\ m.open[2] \in {"/", "\\"}}
NodeStmts ==
    {Stmt(<< <<m.txt>>, << <<"B">> >> >>, <<ArrowConn>>) : m \in NodeMentions}
        \cup {Stmt(<< <<m1.txt>>, <<m2.txt>> >>, <<ArrowConn>>) :
                  m1 \in SlantMentions(<<"A">>, <<"a">>), m2 \in SlantMentions(<<"B">>, <<"b">>)}

FlowGens ==
    [fam : {"node"}, dir : {<<"T", "B">>}, stmts : {<<st>> : st \in NodeStmts}]
      \cup [fam : {"conn"}, dir : {<<"T", "B">>}, stmts : {<<st>> : st \in ConnStmts}]
      \cup [fam : {"dir"}, dir : DirTexts,
            stmts : {<<Stmt(<< <<(<<"A">>)>>, <<(<<"C">>)>> >>, <<ArrowConn>>)>>}]
      \cup [fam : {"simple"}, dir : {<<"T", "B">>},
            stmts : UNION {[1..n -> SimpleStmts] : n \in 1..MaxLines}]
      \cup [fam : {"shaped"}, dir : {<<"T", "B">>}, stmts : {<<st>> : st \in ShapedStmts}]
      \cup [fam : {"fan"}, dir : {<<"T", "B">>}, stmts : {<<st>> : st \in FanStmts}]
      \cup [fam : {"chain"}, dir : {<<"T", "B">>}, stmts : {<<st>> : st \in ChainStmts}]
      \cup [fam : {"decl"}, dir : {<<"T", "B">>}, stmts : DeclTexts]

RECURSIVE ListText(_)
ListText(l) ==
    IF Len(l) = 1 THEN l[1] ELSE l[1] \o <<" ", "&", " ">> \o ListText(Tail(l))

RECURSIVE StmtText(_)
StmtText(st) ==
    IF st.conns = <<>> THEN ListText(st.lists[1])
    ELSE ListText(st.lists[1]) \o <<" ">> \o ConnText(st.conns[1]) \o <<" ">>
            \o StmtText(Stmt(Tail(st.lists), Tail(st.conns)))

FlowRender(g) ==
    T_flowchart \o <<" ">> \o g.dir
        \o Concat([i \in 1..Len(g.stmts) |-> <<NL, " ", " ">> \o StmtText(g.stmts[i])])

----------------------------------------------------------------------------
(* Flowchart::parse, parse_flowchart, flowchart and parse_line as a state machine *)

\* the pie parser at rest
PieIdle ==
    /\ p_gen = <<>> /\ p_src = <<>> /\ p_pc = "idle" /\ p_pos = 0 /\ p_title = None
    /\ p_show = FALSE /\ p_data = <<>> /\ p_res = "none" /\ p_err = NoError /\ p_failat = 0
    /\ p_out = [status |-> "none", chart |-> None]
    /\ p_first = NoCall

FlowInit ==
    /\ PieIdle
    /\ f_gen \in FlowGens
    /\ f_src = FlowRender(f_gen)
    /\ f_pc = "start"
    /\ f_lines = <<>>
    /\ f_rest = <<>>
    /\ f_left = <<>>
    /\ f_right = <<>>
    /\ f_dir = "none"
    /\ f_nodes = <<>>
    /\ f_edges = <<>>
    /\ f_out = [status |-> "none", why |-> ""]
    /\ f_first = NoCall

\* ParseCtx::new
ParseCtxNew == [left |-> <<>>, right |-> <<>>]

\* a flowchart that starts from the nodes and edges already in memory
FlowchartReused(direction) == [direction |-> direction, graph |-> f_edges, nodes |-> f_nodes]

\* Flowchart::new
FlowchartNew(direction) == [direction |-> direction, graph |-> <<>>, nodes |-> <<>>]

\* the parse ends without a flowchart: a returned error or an abort
FlowStop(r) ==
    /\ f_pc' = "done"
    /\ f_out' = [status |-> r.kind, why |-> r.why]

\* flowchart: the header, Flowchart::new(direction), i.lines()
FlowParseHeader ==
    /\ f_pc = "start"
    /\ \E ctx \in {ParseCtxNew} : f_left' = ctx.left /\ f_right' = ctx.right
    /\ \E h \in {FlowHeader(f_src)} :
          IF h.ok
          THEN \E flow \in {FlowchartNew(h.val)} :
                  /\ f_pc' = "lines"
                  /\ f_dir' = flow.direction
                  /\ f_nodes' = flow.nodes
                  /\ f_edges' = flow.graph
                  /\ f_lines' = Lines(h.rest)
                  /\ UNCHANGED f_out
          ELSE /\ FlowStop(h)
               /\ UNCHANGED <<f_dir, f_lines, f_nodes, f_edges>>
    /\ UNCHANGED <<f_gen, f_src, f_first, f_rest>>
    /\ UNCHANGED pvars

\* flowchart: a line that is empty once trimmed is skipped
FlowBlankLine ==
    /\ f_pc = "lines"
    /\ f_lines # <<>>
    /\ Trim(Head(f_lines)) = <<>>
    /\ f_lines' = Tail(f_lines)
    /\ UNCHANGED <<f_gen, f_src, f_first, f_pc, f_rest, f_left, f_right, f_dir, f_nodes, f_edges, f_out>>
    /\ UNCHANGED pvars

\* node_list run without its nodes.clear(): the vector keeps what it held
NodesKept(nodes) == nodes

\* node_list, nodes.clear(): the scratch vector after it
NodesClear(nodes) == <<>>

\* parse_line: the first connection of a line
FlowLineFirst ==
    /\ f_pc = "lines"
    /\ f_lines # <<>>
    /\ Trim(Head(f_lines)) # <<>>
    /\ \E r \in {ParseFirst(Trim(Head(f_lines)))} :
          IF ~r.ok
          THEN /\ FlowStop(r)
               /\ UNCHANGED <<f_rest, f_left, f_right, f_nodes, f_edges>>
          ELSE \* each node_list clears its scratch vector, then fills it
               \E left \in {NodesClear(f_left) \o r.val.left} :
               \E right \in {NodesClear(f_right) \o r.val.right} :
               \E c \in {Connect(f_nodes, f_edges, left \o right, left, right, r.val.conn)} :
                  /\ f_left' = left
                  /\ f_right' = right
                  /\ f_nodes' = c.nodes
                  /\ f_edges' = c.edges
                  /\ f_rest' = r.rest
                  /\ IF c.why # "" THEN FlowStop(FPanic(c.why))
                     ELSE f_pc' = "inline" /\ UNCHANGED f_out
    /\ UNCHANGED <<f_gen, f_src, f_first, f_lines, f_dir>>
    /\ UNCHANGED pvars

\* parse_line run without the swap of line 104
SwapScratchMissing(left, right) == <<left, right>>

\* std::mem::swap(left_scratch, right_scratch): <<left_scratch, right_scratch>>
\* after it
SwapScratch(left, right) == <<right, left>>

\* parse_line: one iteration of the loop over the 2nd+ connections
FlowLineMore ==
    /\ f_pc = "inline"
    /\ f_rest # <<>>
    /\ \E r \in {ParseMore(f_rest)} :
          IF ~r.ok
          THEN /\ FlowStop(r)
               /\ UNCHANGED <<f_rest, f_left, f_right, f_nodes, f_edges>>
          ELSE \* std::mem::swap(left_scratch, right_scratch), then node_list
               \* clears and fills right_scratch
               \E sw \in {SwapScratch(f_left, f_right)} :
               \E right \in {NodesClear(sw[2]) \o r.val.right} :
               \E c \in {Connect(f_nodes, f_edges, right, sw[1], right, r.val.conn)} :
                  /\ f_left' = sw[1]
                  /\ f_right' = right
                  /\ f_nodes' = c.nodes
                  /\ f_edges' = c.edges
                  /\ f_rest' = r.rest
                  /\ IF c.why # "" THEN FlowStop(FPanic(c.why))
                     ELSE UNCHANGED <<f_pc, f_out>>
    /\ UNCHANGED <<f_gen, f_src, f_first, f_lines, f_dir>>
    /\ UNCHANGED pvars

\* parse_line returns Ok at the end of the line
FlowLineEnd ==
    /\ f_pc = "inline"
    /\ f_rest = <<>>
    /\ f_pc' = "lines"
    /\ f_lines' = Tail(f_lines)
    /\ UNCHANGED <<f_gen, f_src, f_first, f_rest, f_left, f_right, f_dir, f_nodes, f_edges, f_out>>
    /\ UNCHANGED pvars

\* flowchart returns Ok((i, flow)) after the last line, parse_flowchart Ok(chart)
FlowReturn ==
    /\ f_pc = "lines"
    /\ f_lines = <<>>
    /\ f_pc' = "done"
    /\ f_out' = [status |-> "ok", why |-> ""]
    /\ UNCHANGED <<f_gen, f_src, f_first, f_lines, f_rest, f_left, f_right, f_dir, f_nodes, f_edges>>
    /\ UNCHANGED pvars

\* what the caller of Flowchart::parse has in hand when it returns or aborts
FlowOutcome ==
    IF f_out.status = "ok"
    THEN [status |-> "ok", direction |-> f_dir, nodes |-> f_nodes, graph |-> f_edges]
    ELSE [status |-> f_out.status, why |-> f_out.why]

\* the caller calls Flowchart::parse again on the same text; what the first
\* call left in memory is still there
FlowParseAgain ==
    /\ f_pc = "done"
    /\ ~f_first.called
    /\ f_first' = [called |-> TRUE, out |-> FlowOutcome]
    /\ f_pc' = "start"
    /\ f_out' = [status |-> "none", why |-> ""]
    /\ UNCHANGED <<f_gen, f_src, f_lines, f_rest, f_left, f_right, f_dir, f_nodes, f_edges>>
    /\ UNCHANGED pvars

FlowNext ==
    \/ FlowParseAgain
    \/ FlowParseHeader
    \/ FlowBlankLine
    \/ FlowLineFirst
    \/ FlowLineMore
    \/ FlowLineEnd
    \/ FlowReturn

SpecFlow == FlowInit /\ [][FlowNext]_vars

----------------------------------------------------------------------------
(* A caller of the library: one text, handed to Pie::parse or to Flowchart::parse *)

ParseInit == PieInit \/ FlowInit
ParseNext == PieNext \/ FlowNext
SpecParse == ParseInit /\ [][ParseNext]_vars
\* the parsers are sequential code: a call that can take a step takes it
SpecParseLive == SpecParse /\ WF_vars(ParseNext)

----------------------------------------------------------------------------
(* Properties of the pie parser *)

\* what the text was written from
GenDataPoints ==
    [i \in 1..Len(p_gen.data) |->
        [label |-> p_gen.data[i].label,
         value |-> [m |-> PieLits[p_gen.data[i].lit].m, e |-> PieLits[p_gen.data[i].lit].e]]]
\* the text is a header followed by n >= 1 data points and nothing else
GenHeaderAndData == Len(p_gen.data) >= 1 /\ p_gen.trail = <<>>
PieReturned == p_pc = "returned"
PieChart == p_out.chart.val

\* C1: a pie text made of the header and n >= 1 data points parses, and the
\* chart holds exactly the n data points in source order, each label the text
\* between its quotes verbatim and each value the number its literal denotes.
C1_DataRoundTrip ==
    (PieReturned /\ GenHeaderAndData) =>
        /\ p_out.status = "ok"
        /\ p_out.chart.some
        /\ PieChart.data = GenDataPoints

C1_Witness ==
    /\ PieReturned /\ GenHeaderAndData /\ p_out.status = "ok"
    /\ Len(PieChart.data) = 2
    /\ PieChart.data[1].label = <<" ", "\\", "n", ":", " ">>
    /\ PieChart.data[1].value = [m |-> 4296, e |-> 0 - 2]
    /\ PieChart.data[2].label = <<"A">>
    /\ PieChart.data[2].value = [m |-> 0 - 25, e |-> 0]

\* C2: a pie text with no data point is not parsed into a chart.
C2_EmptyBodyFails ==
    (PieReturned /\ Len(p_gen.data) = 0 /\ p_gen.trail = <<>>) => p_out.status # "ok"

\* C3: every failure of parse_pie reaches the caller of Pie::parse as an error
\* value, never as an abort, and no chart is returned with it.
C3_FailureIsErrorValue ==
    (PieReturned /\ p_res = "err") => (p_out.status = "err" /\ ~p_out.chart.some)

\* C4: the line, column and offset of a pie parse error are those of the
\* failure point in the text the caller handed to Pie::parse.
FailOffsetInSrc == TrimStartLen(p_src) + p_failat
C4_ErrorPositionInCallerText ==
    p_res = "err" =>
        /\ p_err.offset = FailOffsetInSrc
        /\ p_err.line = LocationLine(p_src, FailOffsetInSrc)
        /\ p_err.col = GetColumn(p_src, FailOffsetInSrc)

\* C5: text that is not a data point after the last data point fails with
\* the error kind UnexpectedTrailing.
C5_TrailingIsUnexpectedTrailing ==
    (p_pc \in {"parsed", "returned"} /\ Len(p_gen.data) >= 1 /\ p_gen.trail # <<>>) =>
        (p_res = "err" /\ p_err.kind = "UnexpectedTrailing")

\* C6: a header with showData and title, followed by data points, gives
\* show_data = true and the title text up to the next quote, trimmed.
C6_ShowDataAndTitle ==
    (PieReturned /\ GenHeaderAndData /\ p_gen.show /\ p_gen.title.some) =>
        /\ p_out.status = "ok"
        /\ PieChart.show_data = TRUE
        /\ PieChart.title = Some(p_gen.title.val.trimmed)
        /\ PieChart.data = GenDataPoints

C6_Witness ==
    /\ PieReturned /\ p_gen.show /\ p_gen.title.some /\ p_out.status = "ok"
    /\ PieChart.show_data
    /\ PieChart.title = Some(<<"M", "y", " ", "T">>)
    /\ Len(PieChart.data) = 2

\* C7: in a parsed chart show_data is false exactly when the showData flag is
\* absent and title is none exactly when the title keyword is absent; a title
\* keyword followed by white space only gives the empty title, not none.
C7_AbsentFlagAndTitle ==
    (PieReturned /\ p_out.status = "ok") =>
        /\ (PieChart.show_data = FALSE) <=> ~p_gen.show
        /\ (PieChart.title = None) <=> ~p_gen.title.some
        /\ (p_gen.title.some /\ p_gen.title.val.trimmed = <<>>) =>
              (PieChart.title = Some(<<>>) /\ PieChart.title # None)

C7_Witness ==
    /\ PieReturned /\ p_out.status = "ok"
    /\ ~p_gen.show /\ p_gen.title.some /\ p_gen.title.val.txt = <<" ", NL>>
    /\ PieChart.show_data = FALSE
    /\ PieChart.title = Some(<<>>)

----------------------------------------------------------------------------
(* Properties of the flowchart parser *)

FlowDone == f_pc = "done"
\* the node table and the edges as sets of what they hold
SeqSet(q) == {q[i] : i \in 1..Len(q)}
\* the (from, to) pairs a statement asks for, one sequence entry per pair per
\* connector, in the order the statement is written
RECURSIVE StmtPairs(_)
StmtPairs(st) ==
    IF st.conns = <<>> THEN {}
    ELSE {<<l, r>> : l \in SeqSet(st.lists[1]), r \in SeqSet(st.lists[2])}
            \cup StmtPairs(Stmt(Tail(st.lists), Tail(st.conns)))
RECURSIVE StmtPairCount(_)
StmtPairCount(st) ==
    IF st.conns = <<>> THEN 0
    ELSE Len(st.lists[1]) * Len(st.lists[2]) + StmtPairCount(Stmt(Tail(st.lists), Tail(st.conns)))
RECURSIVE SumTo(_, _)
SumTo(f, n) == IF n = 0 THEN 0 ELSE f[n] + SumTo(f, n - 1)
GenPairs == UNION {StmtPairs(f_gen.stmts[i]) : i \in 1..Len(f_gen.stmts)}
GenPairCount == SumTo([i \in 1..Len(f_gen.stmts) |-> StmtPairCount(f_gen.stmts[i])], Len(f_gen.stmts))
StmtIds(st) == UNION {SeqSet(st.lists[k]) : k \in 1..Len(st.lists)}
GenIds == UNION {StmtIds(f_gen.stmts[i]) : i \in 1..Len(f_gen.stmts)}
\* bare identifiers joined by -->; no (from, to) pair is asked for twice
GenBareArrows == f_gen.fam \in {"simple", "dir"}
GenPairsDistinct == Cardinality(GenPairs) = GenPairCount
\* the one connector of a "conn" text and the edge it makes
GenConn == f_gen.stmts[1].conns[1]
ConnEdge == f_edges[<< <<"A">>, <<"B">> >>]
ArrowOf(glyph) ==
    IF glyph = <<>> THEN None
    ELSE Some(IF glyph[1] = "o" THEN "Circle" ELSE IF glyph[1] = "x" THEN "Cross" ELSE "Arrow")

\* C8: a flowchart of bare identifiers joined by --> parses into one square,
\* empty-label node per distinct identifier and one edge per pair of a
\* statement, each edge normal, without start arrow, with an arrow at its end
\* and of rank 1.
C8_BareArrowStatements ==
    (FlowDone /\ GenBareArrows /\ GenPairsDistinct) =>
        /\ f_out.status = "ok"
        /\ DOMAIN f_nodes = GenIds
        /\ \A id \in GenIds : f_nodes[id] = [id |-> id, label |-> <<>>, style |-> "Square"]
        /\ DOMAIN f_edges = GenPairs
        /\ \A e \in GenPairs : f_edges[e] = MkConnector("Normal", None, Some("Arrow"), 1)

C8_Witness ==
    /\ FlowDone /\ f_gen.fam = "simple" /\ f_out.status = "ok"
    /\ Len(f_gen.stmts) = 2
    /\ DOMAIN f_nodes = {<<"A">>, <<"B">>, <<"C">>}
    /\ DOMAIN f_edges = {<< <<"A">>, <<"B">> >>, << <<"A">>, <<"C">> >>, << <<"B">>, <<"C">> >>}
    /\ f_edges[<< <<"A">>, <<"C">> >>].rank = 1

\* a solid connector written without leading arrow from d >= 2 equal line
\* characters
GenSolidNoLead ==
    /\ f_gen.fam = "conn" /\ GenConn.kind = "solid" /\ GenConn.lead = <<>>
    /\ Len(GenConn.line) >= 2
    /\ \A i \in 1..Len(GenConn.line) : GenConn.line[i] = GenConn.line[1]

\* C9: a solid connector without leading arrow, of d >= 2 identical line
\* characters, has rank d-1 when an arrow glyph follows it and d-2 when none
\* does.
C9_SolidRank ==
    (FlowDone /\ GenSolidNoLead) =>
        /\ f_out.status = "ok"
        /\ ConnEdge.rank =
              (IF GenConn.trail # <<>> THEN Len(GenConn.line) - 1 ELSE Len(GenConn.line) - 2)
        /\ ConnEdge.line_style = (IF GenConn.line[1] = "-" THEN "Normal" ELSE "Thick")

C9_Witness ==
    /\ FlowDone /\ GenSolidNoLead /\ f_out.status = "ok"
    /\ GenConn.line = <<"-", "-", "-">> /\ GenConn.trail = <<>>
    /\ ConnEdge.rank = 1

\* C10: a dotted connector of k >= 1 dots is dotted and of rank k, whichever
\* arrow glyphs are written before and after it.
C10_DottedRank ==
    (FlowDone /\ f_gen.fam = "conn" /\ GenConn.kind = "dotted") =>
        /\ f_out.status = "ok"
        /\ ConnEdge.line_style = "Dotted"
        /\ ConnEdge.rank = Len(GenConn.line)
        /\ ConnEdge.arrow_start = ArrowOf(GenConn.lead)
        /\ ConnEdge.arrow_end = ArrowOf(GenConn.trail)

C10_Witness ==
    /\ FlowDone /\ f_gen.fam = "conn" /\ GenConn.kind = "dotted" /\ f_out.status = "ok"
    /\ GenConn.lead = <<"x">> /\ GenConn.trail = <<>> /\ Len(GenConn.line) = 2
    /\ ConnEdge.rank = 2 /\ ConnEdge.arrow_end = None

\* the nodes a text can mention, and the one a node text of the generator is
AllMentions ==
    {Bare(id) : id \in FlowIds \cup {<<"D">>}} \cup SubroutineMentions \cup AMentions
        \cup NodeMentions \cup SlantMentions(<<"A">>, <<"a">>) \cup SlantMentions(<<"B">>, <<"b">>)
MentionOf(txt) == CHOOSE m \in AllMentions : m.txt = txt
\* the first node of the first statement, as written
GenFirstMention == MentionOf(f_gen.stmts[1].lists[1][1])

\* C11: the statement A[[ text ]] ----> C & D registers A as a subroutine
\* node whose label is the text between [[ and ]] with its blanks, and adds
\* exactly the edges A->C and A->D, both of rank 3.
C11_SubroutineLabelKeepsBlanks ==
    (FlowDone /\ f_gen.fam = "shaped"
        /\ GenFirstMention.body = <<" ", "t", "e", "x", "t", " ">>) =>
        /\ f_out.status = "ok"
        /\ f_nodes[<<"A">>] =
              [id |-> <<"A">>, label |-> <<" ", "t", "e", "x", "t", " ">>,
               style |-> "Subroutine"]
        /\ DOMAIN f_edges = {<< <<"A">>, <<"C">> >>, << <<"A">>, <<"D">> >>}
        /\ \A e \in DOMAIN f_edges : f_edges[e].rank = 3

\* the identifiers of a node list as written, and the (from, to) pairs the
\* k-th connector of a statement joins
ListIds(l) == [i \in 1..Len(l) |-> MentionOf(l[i]).id]
ConnPairs(st, k) ==
    {<<l, r>> : l \in SeqSet(ListIds(st.lists[k])), r \in SeqSet(ListIds(st.lists[k + 1]))}
\* no identifier is written twice in one node list of the statement
ListsDistinct(st) ==
    \A k \in 1..Len(st.lists) : Cardinality(SeqSet(ListIds(st.lists[k]))) = Len(st.lists[k])

\* C12: node lists L and R joined by a connector c give, in a successful
\* parse, one edge l->r for every (l, r) of L x R with c's line style, arrow
\* styles and rank, and no other edge.
C12_FanOutProduct ==
    (FlowDone /\ f_gen.fam = "fan") =>
        /\ ListsDistinct(f_gen.stmts[1]) => f_out.status = "ok"
        /\ f_out.status = "ok" =>
              /\ DOMAIN f_edges = ConnPairs(f_gen.stmts[1], 1)
              /\ \A e \in DOMAIN f_edges : f_edges[e] = f_gen.stmts[1].conns[1].expect

C12_Witness ==
    /\ FlowDone /\ f_gen.fam = "fan" /\ f_out.status = "ok"
    /\ f_gen.stmts[1].lists = << << <<"A">>, <<"B">> >>, << <<"C">>, <<"D">> >> >>
    /\ Cardinality(DOMAIN f_edges) = 4
    /\ f_edges[<< <<"B">>, <<"C">> >>] = MkConnector("Thick", Some("Cross"), Some("Circle"), 2)

\* the chained statement of a "chain" text and the pairs its connectors join
GenChain == f_gen.stmts[1]
ChainPairs == UNION {ConnPairs(GenChain, k) : k \in 1..Len(GenChain.conns)}
\* no pair is joined by two connectors of the chain
ChainPairsDisjoint ==
    \A j, k \in 1..Len(GenChain.conns) :
        j # k => ConnPairs(GenChain, j) \cap ConnPairs(GenChain, k) = {}

\* C13: in a chained statement the k-th connector joins node list k to node
\* list k+1 only: no other edge is ever added, and each edge carries the
\* style, arrows and rank of its own connector.
C13_ChainLinksNeighbours ==
    f_gen.fam = "chain" =>
        /\ DOMAIN f_edges \subseteq ChainPairs
        /\ FlowDone =>
              /\ (ListsDistinct(GenChain) /\ ChainPairsDisjoint) => f_out.status = "ok"
              /\ f_out.status = "ok" =>
                    /\ DOMAIN f_edges = ChainPairs
                    /\ \A k \in 1..Len(GenChain.conns) : \A e \in ConnPairs(GenChain, k) :
                          f_edges[e] = GenChain.conns[k].expect

C13_Witness ==
    /\ FlowDone /\ f_gen.fam = "chain" /\ f_out.status = "ok"
    /\ GenChain.lists = << << <<"A">> >>, << <<"B">> >>, << <<"C">> >> >>
    /\ DOMAIN f_edges = {<< <<"A">>, <<"B">> >>, << <<"B">>, <<"C">> >>}
    /\ f_edges[<< <<"A">>, <<"B">> >>].rank = 1
    /\ f_edges[<< <<"B">>, <<"C">> >>].rank = 2

\* the nodes of a text in the order they are written
StmtMentions(st) ==
    Concat([k \in 1..Len(st.lists) |->
                [i \in 1..Len(st.lists[k]) |-> MentionOf(st.lists[k][i])]])
GenMentions == Concat([i \in 1..Len(f_gen.stmts) |-> StmtMentions(f_gen.stmts[i])])
\* the first mention of an identifier
FirstMention(id) ==
    GenMentions[CHOOSE i \in 1..Len(GenMentions) :
                    /\ GenMentions[i].id = id
                    /\ \A j \in 1..(i - 1) : GenMentions[j].id # id]
\* an identifier first written with a label is written again, later, with
\* delimiters and another shape or label
GenRedeclared ==
    \E i, j \in 1..Len(GenMentions) :
        /\ i < j
        /\ GenMentions[i].id = GenMentions[j].id
        /\ FirstMention(GenMentions[i].id) = GenMentions[i]
        /\ GenMentions[i].body # <<>> /\ GenMentions[i].style # "Unclosed"
        /\ GenMentions[j].open # <<>>
        /\ (GenMentions[j].style # GenMentions[i].style \/ GenMentions[j].body # GenMentions[i].body)

\* C14: once an identifier is registered with a non-empty label, a later
\* mention of it with a different shape or label makes the parse fail.
C14_RedeclarationFails ==
    (FlowDone /\ f_gen.fam = "decl" /\ GenRedeclared) => f_out.status # "ok"

\* every mention of an identifier after its first is bare, and every label closes
GenLaterMentionsBare ==
    \A j \in 1..Len(GenMentions) :
        /\ GenMentions[j].style # "Unclosed"
        /\ GenMentions[j] # Bare(GenMentions[j].id) =>
              \A i \in 1..(j - 1) : GenMentions[i].id # GenMentions[j].id

\* C15: a bare mention of a registered identifier changes nothing and does
\* not fail; after a successful parse every node has the label and the shape
\* of its first registration.
C15_FirstRegistrationWins ==
    (FlowDone /\ f_gen.fam = "decl") =>
        /\ GenLaterMentionsBare => f_out.status = "ok"
        /\ f_out.status = "ok" =>
              \A id \in DOMAIN f_nodes :
                  f_nodes[id] = [id |-> id, label |-> FirstMention(id).body,
                                 style |-> FirstMention(id).style]

C15_Witness ==
    /\ FlowDone /\ f_gen.fam = "decl" /\ f_out.status = "ok"
    /\ Len(f_gen.stmts) = 2
    /\ GenMentions[1] = Mention(<<"A">>, <<"(">>, <<"x">>, <<")">>, "Round")
    /\ GenMentions[3] = Bare(<<"A">>)
    /\ f_nodes[<<"A">>] = [id |-> <<"A">>, label |-> <<"x">>, style |-> "Round"]

\* a solid connector written with both - and =
GenSolidMixed ==
    /\ f_gen.fam = "conn" /\ GenConn.kind = "solid"
    /\ \E i, j \in 1..Len(GenConn.line) : GenConn.line[i] # GenConn.line[j]

\* C16: a solid connector whose line characters are not all the same symbol
\* is rejected: the parse gives no flowchart.
C16_MixedLineRejected ==
    (FlowDone /\ GenSolidMixed) => (f_out.status # "ok" /\ f_edges = <<>>)

C16_Witness ==
    /\ FlowDone /\ GenSolidMixed /\ f_out.status = "panic"
    /\ GenConn.lead = <<>> /\ GenConn.line = <<"-", "=", "-">> /\ GenConn.trail = <<">">>

\* C17: an edge is its ordered (from, to) pair: a text asking twice for the
\* same ordered pair (in two statements, or through an identifier repeated in
\* one & list) fails to parse, while reverse edges and self-edges are accepted.
C17_DuplicateEdgeFails ==
    (FlowDone /\ f_gen.fam \in {"simple", "fan"}) =>
        /\ (f_out.status = "ok") <=> GenPairsDistinct
        /\ f_out.status = "ok" => DOMAIN f_edges = GenPairs

C17_Witness ==
    /\ FlowDone /\ f_gen.fam = "simple" /\ f_out.status = "panic"
    /\ f_out.why = "edge already exists"
    /\ Len(f_gen.stmts) = 2 /\ f_gen.stmts[1] = f_gen.stmts[2]
    /\ GenPairs = {<< <<"A">>, <<"B">> >>}

\* reverse edges and a self-edge in one accepted text
C17_ReverseAndSelfAccepted ==
    /\ FlowDone /\ f_gen.fam = "simple" /\ f_out.status = "ok"
    /\ DOMAIN f_edges = {<< <<"A">>, <<"B">> >>, << <<"B">>, <<"A">> >>, << <<"B">>, <<"B">> >>}

\* C18: whenever an edge is added both its endpoints are in the node table:
\* the assertion of add_edge never fails, and every edge of the graph joins
\* two registered nodes, after first connections and continuations alike.
C18_EdgeEndpointsRegistered ==
    /\ f_out.why # "assertion failed"
    /\ \A e \in DOMAIN f_edges : e[1] \in DOMAIN f_nodes /\ e[2] \in DOMAIN f_nodes

\* a continuation has just added B->C after A->B, and another one follows
C18_Witness ==
    /\ f_pc = "inline" /\ f_gen.fam = "chain" /\ f_rest # <<>>
    /\ DOMAIN f_edges = {<< <<"A">>, <<"B">> >>, << <<"B">>, <<"C">> >>}
    /\ DOMAIN f_nodes = {<<"A">>, <<"B">>, <<"C">>}

\* C19: a second parse of the same text ends as the first did: the same
\* failure, or equal models (direction, node table and edges with their
\* connectors; title, show_data and data).
C19_SecondParseSameOutcome ==
    /\ (FlowDone /\ f_first.called) => FlowOutcome = f_first.out
    /\ (PieReturned /\ p_first.called) => PieOutcome = p_first.out

\* a second parse has ended with the same four nodes and four edges
C19_Witness ==
    /\ FlowDone /\ f_first.called /\ f_out.status = "ok"
    /\ f_first.out.status = "ok"
    /\ Cardinality(DOMAIN f_first.out.nodes) = 4
    /\ Cardinality(DOMAIN f_edges) = 4
    /\ f_edges = f_first.out.graph

\* the last call on the text is over: it returned or aborted
ParseOver == (PieReturned /\ p_first.called) \/ (FlowDone /\ f_first.called)
\* an iteration of the loop of parse_pie that goes on to another one has
\* moved the cursor forward
PieLoopConsumes == (p_pc = "body" /\ p_pc' = "body") => p_pos' > p_pos
\* an iteration of the loop of parse_line that goes on has shortened the
\* rest of the line, and the lines still to parse never grow
FlowLoopConsumes ==
    /\ (f_pc = "inline" /\ f_pc' = "inline") => Len(f_rest') < Len(f_rest)
    /\ (f_pc = "lines" /\ f_pc' = "lines") => Len(f_lines') < Len(f_lines)

\* C20: every parse of a finite text ends, with a model, an error or an
\* abort: each loop iteration consumes input, and a label that never closes
\* ends the scan at the end of the line.
C20_ParsesTerminate ==
    /\ <>ParseOver
    /\ [][PieLoopConsumes /\ FlowLoopConsumes]_vars

\* the parse of a text whose node label never closes has ended with an error
C20_Witness ==
    /\ FlowDone /\ f_gen.fam = "decl" /\ f_out.status = "err" /\ f_out.why = "TakeUntil"
    /\ GenMentions[1].style = "Unclosed"

\* the first node of the text is written with a start delimiter and without
\* the end delimiter of its shape, or with a quoted label that never closes
GenNodeMalformed ==
    /\ f_gen.fam = "node"
    /\ GenFirstMention.style \in {"Unclosed", "Unmatched", "UnclosedQuote"}
\* a labelled node is written again, later, with another label
GenDeclaredTwice ==
    /\ f_gen.fam = "decl"
    /\ \E i, j \in 1..Len(GenMentions) :
          /\ i < j
          /\ GenMentions[i].id = GenMentions[j].id
          /\ GenMentions[i].body # <<>> /\ GenMentions[i].close # <<>>
          /\ GenMentions[j].body # <<>> /\ GenMentions[j].close # <<>>
          /\ \A k \in 1..j : GenMentions[k].style # "Unclosed"

GenShapedAgain ==
    /\ f_gen.fam = "decl"
    /\ \E i, j \in 1..Len(GenMentions) :
          /\ i < j
          /\ GenMentions[i].id = GenMentions[j].id
          /\ GenMentions[j].open # <<>>
          /\ \A k \in 1..j : GenMentions[k].style # "Unclosed"

\* C22: a mention of a registered identifier between the delimiters of a
\* shape is an error for every shape, also when nothing is written between
\* the delimiters; it is never accepted with its shape dropped.
C22_ShapedMentionOfRegisteredFails ==
    (FlowDone /\ GenShapedAgain) => f_out.status # "ok"

\* the first node of the text is A written in one of the 14 shapes, around
\* the label x or around nothing
GenShaped ==
    /\ f_gen.fam = "node"
    /\ GenFirstMention \in ShapedMentions(<<"A">>, <<"x">>) \cup ShapedMentions(<<"A">>, <<>>)

\* C23: the longest start delimiter at the cursor is taken, and each of the
\* 14 (start, end) pairs gives its own shape: the 14 pairs stand for 14
\* different shapes, and a node written with a pair is registered with the
\* shape of that pair and the text between the delimiters as its label.
C23_ShapeOfDelimiterPair ==
    /\ Cardinality({p.style : p \in ShapePairs}) = 14
    /\ (FlowDone /\ GenShaped) =>
          /\ f_out.status = "ok"
          /\ f_nodes[<<"A">>] =
                [id |-> <<"A">>, label |-> GenFirstMention.body, style |-> GenFirstMention.style]

\* A(((x))) --> B has registered A as a double circle labelled x
C23_Witness ==
    /\ FlowDone /\ GenShaped /\ f_out.status = "ok"
    /\ GenFirstMention.txt = <<"A", "(", "(", "(", "x", ")", ")", ")">>
    /\ f_nodes[<<"A">>] = [id |-> <<"A">>, label |-> <<"x">>, style |-> "DoubleCircle"]
    /\ DOMAIN f_edges = {<< <<"A">>, <<"B">> >>}

\* the first node of the text is A with a label written without quotes,
\* without a blank in front and without a character of several bytes
GenUnquoted ==
    /\ f_gen.fam = "node"
    /\ GenFirstMention \in
          ShapedMentions(<<"A">>, <<"x">>) \cup ShapedMentions(<<"A">>, <<"x", ")", " ", "y">>)
              \cup SlantMentions(<<"A">>, <<"a">>)
              \cup {m \in UnclosedMentions : TRUE}
\* the text of the statement after the start delimiter of its first node
GenAfterOpen ==
    Drop(StmtText(f_gen.stmts[1]), Len(GenFirstMention.id) + Len(GenFirstMention.open))
\* the shapes whose start delimiter is open and whose end delimiter is at offset k of t
EndsAt(open, t, k) == {p \in ShapePairs : p.open = open /\ StartsWithAt(t, k, p.close)}
\* the offsets of t at which an end delimiter valid for open is written
EndOffsets(open, t) == {k \in 0..Len(t) : EndsAt(open, t, k) # {}}
SmallestOf(S) == CHOOSE k \in S : \A j \in S : k <= j
\* what may follow the first node for the statement to be well formed
GoodRests ==
    {<<" ", "-", "-", ">", " ", "B">>}
        \cup {<<" ", "-", "-", ">", " ">> \o m.txt : m \in SlantMentions(<<"B">>, <<"b">>)}

\* C24: a label without quotes ends at the smallest offset at which an end
\* delimiter valid for the start delimiter is written; the shape is that of
\* the delimiter found there and the parse goes on right after it (so it
\* succeeds exactly when what follows is the rest of a statement).  When no
\* valid end delimiter is written before the end of the statement the parse
\* fails and gives no flowchart.
C24_UnquotedLabelEndsAtFirstDelimiter ==
    (FlowDone /\ GenUnquoted) =>
        \E t \in {GenAfterOpen} : \E offs \in {EndOffsets(GenFirstMention.open, GenAfterOpen)} :
            IF offs = {} THEN f_out.status # "ok"
            ELSE \E k \in {SmallestOf(offs)} :
                 \E p \in EndsAt(GenFirstMention.open, t, k) :
                    /\ (f_out.status = "ok") <=> (Drop(t, k + Len(p.close)) \in GoodRests)
                    /\ f_out.status = "ok" =>
                          f_nodes[<<"A">>] =
                              [id |-> <<"A">>, label |-> Take(t, k), style |-> p.style]

\* A[/a\] --> B[/b/]: the label of A ends at \], before the /] written
\* further on, and the parse went on to register B
C24_Witness ==
    /\ FlowDone /\ GenUnquoted /\ f_out.status = "ok"
    /\ GenAfterOpen = <<"a", "\\", "]", " ", "-", "-", ">", " ", "B", "[", "/", "b", "/", "]">>
    /\ f_nodes[<<"A">>] = [id |-> <<"A">>, label |-> <<"a">>, style |-> "Trapezoid"]
    /\ f_nodes[<<"B">>] = [id |-> <<"B">>, label |-> <<"b">>, style |-> "Parallelogram"]

\* the first node of the text has a label, written without quotes, with a
\* character of two bytes
GenWide == f_gen.fam = "node" /\ GenFirstMention \in WideMentions

\* C25: the scan of a label without quotes goes character by character: a
\* label with a character of several bytes is scanned to its end delimiter
\* and returned whole, and the scan never aborts inside a character.
C25_WideLabelScannedWhole ==
    (FlowDone /\ GenWide) =>
        /\ f_out.status = "ok"
        /\ f_nodes[<<"A">>] =
              [id |-> <<"A">>, label |-> GenFirstMention.body, style |-> GenFirstMention.style]

\* the first node of the text is A with a label between double quotes that
\* close, after a start delimiter and maybe a blank
GenQuoted ==
    /\ f_gen.fam = "node"
    /\ GenFirstMention \in QuotedMentions
    /\ GenFirstMention.style # "UnclosedQuote"
\* the text written between the first double quote of t and the next one
BetweenQuotes(t) ==
    LET q1 == CHOOSE i \in 1..Len(t) : t[i] = QUOTE /\ \A j \in 1..(i - 1) : t[j] # QUOTE
        q2 == CHOOSE i \in (q1 + 1)..Len(t) :
                  t[i] = QUOTE /\ \A j \in (q1 + 1)..(i - 1) : t[j] # QUOTE
    IN SubSeq(t, q1 + 1, q2 - 1)

\* C26: when a double quote follows the start delimiter (and blanks), the
\* label is exactly the text up to the next double quote, end delimiters
\* inside it included; the end delimiter of the shape has to follow the
\* closing quote, after blanks at most, and the parse fails when it does not.
C26_QuotedLabelIsQuotedText ==
    (FlowDone /\ GenQuoted) =>
        IF GenFirstMention.style \in {"Unclosed", "Unmatched"}
        THEN f_out.status # "ok"
        ELSE /\ f_out.status = "ok"
             /\ f_nodes[<<"A">>] =
                   [id |-> <<"A">>, label |-> BetweenQuotes(GenFirstMention.body),
                    style |-> GenFirstMention.style]

\* A(( "q )) t" )) --> B has registered A as a circle labelled `q )) t`
C26_Witness ==
    /\ FlowDone /\ GenQuoted /\ f_out.status = "ok"
    /\ GenFirstMention.body = <<" ", QUOTE, "q", " ", ")", ")", " ", "t", QUOTE, " ">>
    /\ f_nodes[<<"A">>] =
          [id |-> <<"A">>, label |-> <<"q", " ", ")", ")", " ", "t">>, style |-> "Circle"]

\* the header has the title keyword and no double quote is written after it
GenTitleNoQuote ==
    /\ p_gen.title.some /\ Len(p_gen.data) = 0
    /\ \A i \in 1..Len(p_gen.trail) : p_gen.trail[i] # QUOTE
\* the cursor, in the trimmed text, right after the title keyword
GenTitleEnd ==
    Len(T_pie) + (IF p_gen.show THEN Len(GenSep(p_gen)) + Len(T_showData) ELSE 0)
        + Len(GenSep(p_gen)) + Len(T_title)

\* C27: a header with the title keyword and no double quote anywhere after
\* it fails with the error kind SearchLiteral for the quote, located where
\* the search for the quote began.
C27_TitleWithoutQuoteIsSearchLiteral ==
    (p_pc \in {"parsed", "returned"} /\ GenTitleNoQuote) =>
        /\ p_res = "err"
        /\ p_err.kind = "SearchLiteral" /\ p_err.lit = <<QUOTE>>
        /\ p_failat = GenTitleEnd

\* the connector written in the text is a solid one
GenSolid == f_gen.fam = "conn" /\ GenConn.kind = "solid"
\* the number of characters of the connector as written
GenConnLen == Len(GenConn.lead) + Len(GenConn.line) + Len(GenConn.trail)
GenConnIs(lead, line, trail) ==
    GenSolid /\ GenConn.lead = lead /\ GenConn.line = line /\ GenConn.trail = trail

GenJoined ==
    UNION {ConnPairs(f_gen.stmts[i], k) :
              <<i, k>> \in {<<i, k>> \in (1..Len(f_gen.stmts)) \X (1..MaxChain) :
                               k <= Len(f_gen.stmts[i].conns)}}
GenWritten ==
    UNION {SeqSet(ListIds(f_gen.stmts[i].lists[k])) :
              <<i, k>> \in {<<i, k>> \in (1..Len(f_gen.stmts)) \X (1..(MaxChain + 1)) :
                               k <= Len(f_gen.stmts[i].lists)}}
EdgeEnds == UNION {{e[1], e[2]} : e \in DOMAIN f_edges}

\* C29: after a successful flowchart parse every node of the node table is an
\* endpoint of some edge, every edge endpoint is in the node table, and the
\* nodes and edges are those of each statement's own node lists: what a
\* node list held for one statement gives no node and no edge to a later one.
C29_NodesAndEdgesAgree ==
    (FlowDone /\ f_out.status = "ok") =>
        /\ DOMAIN f_nodes \subseteq EdgeEnds
        /\ EdgeEnds \subseteq DOMAIN f_nodes
        /\ DOMAIN f_edges = GenJoined
        /\ DOMAIN f_nodes = GenWritten

\* A --> B / B --> C and a chain with a fan in it, both parsed
C29_Witness ==
    /\ FlowDone /\ f_out.status = "ok"
    /\ \/ /\ f_gen.fam = "simple" /\ Len(f_gen.stmts) = 2
          /\ DOMAIN f_edges = {<< <<"A">>, <<"B">> >>, << <<"B">>, <<"C">> >>}
          /\ DOMAIN f_nodes = {<<"A">>, <<"B">>, <<"C">>}
       \/ /\ f_gen.fam = "chain" /\ Len(GenChain.conns) = 3
          /\ Cardinality(DOMAIN f_edges) = 4
          /\ DOMAIN f_nodes = {<<"A">>, <<"B">>, <<"C">>, <<"D">>}

====
